---- MODULE Spec2Model ----
(***************************************************************************)
(* Model of the HomeCare bot's event intake (backend/main.py,              *)
(* backend/agents/root_agent.py) and of its risk-level engine              *)
(* (backend/services/risk_service.py).                                     *)
(*                                                                         *)
(* The specifications that share the module:                               *)
(*   CalcSpec  - RiskService._calculate as a pure function of its inputs   *)
(*   RiskSpec  - RiskService.recalculate, the manual override and the      *)
(*               alert store, run by concurrent workers on one document    *)
(*               store                                                     *)
(*   Spec      - the Slack event intake of several instances               *)
(*   GateSpec  - the intake of one instance under more admitted events     *)
(*               than _agent_semaphore has slots                           *)
(*   LruSpec   - the two dedup caches as functions of the keys marked      *)
(*   RestartSpec - the intake of one instance that can restart             *)
(*   GateLiveSpec - GateSpec with the scheduling of the event loop         *)
(*   HealSpec  - the calls of RiskSpec, one at a time                      *)
(*   KeySpec   - the choice of the dedup key among the identifiers         *)
(*   TwinSpec  - one message delivered as message event and app_mention    *)
(*   BotSpec   - the bot's own posts delivered as events                   *)
(***************************************************************************)
EXTENDS Integers, Sequences, FiniteSets, TLC

VARIABLES
    \* --- CalcSpec: the inputs and the result of one _calculate call
    calcIn, calcOut,
    \* --- RiskSpec: the document store and the workers that use it
    patient,    \* the subject's document: the four risk_level* fields
    alerts,     \* the subject's alerts sub-collection, in creation order
    history,    \* the subject's risk_history sub-collection, in append order
    clock,      \* the wall clock, in ticks
    rw,         \* one record per RiskService.recalculate call
    mw,         \* one record per update_patient call that supplies a level
    \* --- Spec: the instances' module globals, the Slack workspace, tasks
    processed_event_ids,  \* main._processed_event_ids of each instance
    processed_messages,   \* root_agent._processed_messages of each instance
    agent_semaphore,      \* free slots of main._agent_semaphore
    reactions,            \* the messages that carry the bot's eyes reaction
    tasks,                \* the detached _process tasks, in spawn order
    inserted,             \* insertions of each key into processed_event_ids
    requests,             \* requests received so far
    response,             \* the response to the latest request
    restarts,             \* the times each instance's process has started anew
    \* --- LruSpec: one cache of each kind and the keys marked into it
    lruCache,   \* ids: a _processed_event_ids; messages: a _processed_messages
    lruMarks    \* the keys marked into each cache, in order of marking

calcVars == <<calcIn, calcOut>>
riskVars == <<patient, alerts, history, clock, rw, mw>>
intakeVars == <<processed_event_ids, processed_messages, agent_semaphore,
                reactions, tasks, inserted, requests, response, restarts>>
lruVars == <<lruCache, lruMarks>>

vars == <<calcIn, calcOut, patient, alerts, history, clock, rw, mw,
          processed_event_ids, processed_messages, agent_semaphore,
          reactions, tasks, inserted, requests, response, restarts,
          lruCache, lruMarks>>

\* What the actions of one specification leave alone.
nonCalcVars == <<riskVars, intakeVars, lruVars>>
nonRiskVars == <<calcVars, intakeVars, lruVars>>
nonIntakeVars == <<calcVars, riskVars, lruVars>>
nonLruVars == <<calcVars, riskVars, intakeVars>>

(***************************************************************************)
(* Values shared by the specifications                                     *)
(***************************************************************************)

\* Python's None, and a key that a stored document does not hold.
NoneVal == "<none>"

\* str.lower() on the level and severity strings the repository writes
\* (the API writes lower case, scripts/seed_demo_data.py writes upper case).
Lower(s) ==
    CASE s = "HIGH" -> "high"
      [] s = "MEDIUM" -> "medium"
      [] s = "LOW" -> "low"
      [] OTHER -> s

\* A timestamp that is None (no alert was ever recorded); ticks are >= 0.
NoTimestamp == 0 - 1

\* (x or "low").lower()
OrLowLower(x) == Lower(IF x = NoneVal THEN "low" ELSE x)

\* level_order of _calculate's step-down branch
level_order == <<"high", "medium", "low">>

IndexOf(seq, x) == CHOOSE i \in DOMAIN seq : seq[i] = x

InSeq(seq, x) == \E i \in DOMAIN seq : seq[i] = x

Min(a, b) == IF a <= b THEN a ELSE b

\* One day in clock ticks: timestamps are finer than a day, and
\* timedelta.days is the floor of the difference in days.
TicksPerDay == 2

\* A day count rounded to the nearest day instead of floored.
DaysSinceRounded(now, latest) == (now - latest + 1) \div TicksPerDay

\* (now - latest_alert_at).days
DaysSince(now, latest) == (now - latest) \div TicksPerDay

\* The day thresholds of the de-escalation branch.
QuietDays == 14
StepDownDays == 7

(***************************************************************************)
(* Spec: the Slack event intake (main.slack_events, RootAgent.route_event) *)
(* of several instances that share the Slack workspace and nothing else    *)
(***************************************************************************)

\* The running instances (Cloud Run containers); each has its own module
\* globals.
Instances == {1, 2}

\* HTTP requests to /slack/events in one behaviour.
MaxRequests == 3

\* _MAX_DEDUP_SIZE and _MAX_PROCESSED are 5000 in the source; the caches
\* here are scaled down so that eviction happens within MaxRequests.
MAX_DEDUP_SIZE == 1
MAX_PROCESSED == 1

\* asyncio.Semaphore(3)
AgentSlots == 3
MaxRestarts == 1

\* The channel that belongs to a patient, and that patient's anchor message.
PatientChannel == "C1"
AnchorTs == "ts0"

\* Request bodies. Report is a thread reply to the anchor, Mention an
\* app_mention, Chat a message outside the anchor thread (it carries no
\* event_id but a client_msg_id), BotPost a message of the bot itself (its
\* only identity is its ts), Stray a thread reply in a channel without
\* patient, Challenge the URL verification of the app setup.
Body(body_type, event_id, client_msg_id, type, channel, ts, thread_ts, bot_id) ==
    [body_type |-> body_type, event_id |-> event_id,
     client_msg_id |-> client_msg_id, type |-> type, channel |-> channel,
     ts |-> ts, thread_ts |-> thread_ts, bot_id |-> bot_id,
     subtype |-> NoneVal, metadata_event_type |-> NoneVal]

Report ==
    Body("event_callback", "Ev1", "cm1", "message", PatientChannel, "ts1",
         AnchorTs, NoneVal)
Mention ==
    Body("event_callback", "Ev2", NoneVal, "app_mention", PatientChannel,
         "ts2", NoneVal, NoneVal)
Chat ==
    Body("event_callback", NoneVal, "cm3", "message", PatientChannel, "ts3",
         NoneVal, NoneVal)
BotPost ==
    Body("event_callback", NoneVal, NoneVal, "message", PatientChannel,
         "ts4", AnchorTs, "B1")
Stray ==
    Body("event_callback", "Ev5", NoneVal, "message", "C0", "ts5", "ts9",
         NoneVal)
Challenge ==
    Body("url_verification", NoneVal, NoneVal, NoneVal, NoneVal, "",
         NoneVal, NoneVal)

Bodies == {Report, Mention, Chat, BotPost, Stray, Challenge}

\* The header X-Slack-Retry-Num: absent on a first delivery, the attempt
\* number on a retry; a header that is present but empty is falsy.
NoRetry == NoneVal
RetryNums == {NoRetry, "", "1"}

\* What the signature headers of a request are to verify_slack_signature.
Signatures == {"valid", "missing_headers", "stale_timestamp", "no_match"}

\* The requests: every body as Slack first sends it; the report and the
\* mention once more as a retry and with headers that do not verify; the
\* report with an empty retry header, as a retry that would not verify, and
\* unverified in a deployment that runs with SKIP_SLACK_VERIFY=true.
Request(body, retry_num, signature, skip_verify) ==
    [body |-> body, retry_num |-> retry_num, signature |-> signature, skip_verify |-> skip_verify]

Requests ==
    {Request(b, NoRetry, "valid", FALSE) : b \in Bodies}
        \cup {Request(b, "1", "valid", FALSE) : b \in {Report, Mention}}
        \cup {Request(Report, NoRetry, "no_match", FALSE),
              Request(Report, NoRetry, "missing_headers", FALSE),
              Request(Mention, NoRetry, "stale_timestamp", FALSE),
              Request(Report, "", "valid", FALSE),
              Request(Report, "1", "no_match", FALSE),
              Request(Report, NoRetry, "no_match", TRUE)}

\* Python's "a or b" on strings: None and "" are falsy.
Truthy(x) == x # NoneVal /\ x # ""
OrElse(a, b) == IF Truthy(a) THEN a ELSE b

\* A handler that takes no request for a retry.
IsRedeliveryNever(retry_num) == FALSE

\* if retry_num
IsRedelivery(retry_num) == Truthy(retry_num)

\* A verification that lets every request pass.
verify_slack_signature_lenient(signature) == TRUE

\* verify_slack_signature returns for a request whose headers are present,
\* whose timestamp is within five minutes and whose signature matches a
\* configured signing secret; it raises otherwise.
verify_slack_signature(signature) == signature = "valid"

\* A gate that lets every request through.
SignatureRejectedNever(signature, skip_verify) == FALSE

\* The verification gate: skipped when SKIP_SLACK_VERIFY is "true"; any
\* exception of verify_slack_signature is answered 401.
SignatureRejected(signature, skip_verify) == ~skip_verify /\ ~verify_slack_signature(signature)

\* A key that prefers the timestamp.
EventKeyTsFirst(body) == OrElse(body.ts, OrElse(body.client_msg_id, body.event_id))

\* event_id = body.get("event_id") or event.get("client_msg_id")
\*            or event.get("ts", "")
EventKey(body) ==
    OrElse(body.event_id, OrElse(body.client_msg_id, body.ts))

\* Messages of a channel without patient that carry every combination of
\* an event_id (absent, empty, K1), a client_msg_id (absent, K1, K2) and a
\* ts (absent, K2, K3).
KeyBodies ==
    {Body("event_callback", e, c, "message", "C0", t, NoneVal, NoneVal) :
        e \in {NoneVal, "", "K1"}, c \in {NoneVal, "K1", "K2"},
        t \in {"", "K2", "K3"}}

\* The report's message once more, as the app_mention event Slack sends for
\* a thread reply that mentions the bot: same channel and ts, its own
\* event_id.
ReportMention ==
    Body("event_callback", "Ev6", NoneVal, "app_mention", PatientChannel,
         "ts1", AnchorTs, NoneVal)

\* What the bot posts in the anchor thread, as Slack sends it back: a
\* confirmation with the bot's bot_id, and an alert with the subtype
\* bot_message and no bot_id.
BotConfirmation ==
    Body("event_callback", "Ev7", NoneVal, "message", PatientChannel, "ts7",
         AnchorTs, "B1")

BotAlert ==
    [Body("event_callback", "Ev8", NoneVal, "message", PatientChannel, "ts8",
          AnchorTs, NoneVal) EXCEPT !.subtype = "bot_message"]

\* A test report posted by a bot with the metadata event_type dummy_report.
DummyReport ==
    [Body("event_callback", "Ev9", NoneVal, "message", PatientChannel, "ts9",
          AnchorTs, "B1") EXCEPT !.metadata_event_type = "dummy_report"]

Keys ==
    {EventKey(b) : b \in Bodies \cup KeyBodies \cup
                        {ReportMention, BotConfirmation, BotAlert, DummyReport}}

\* A handler that admits every request, seen or not.
AlreadySeenNever(event_id, ids) == FALSE

\* if event_id and event_id in _processed_event_ids
AlreadySeen(event_id, ids) == Truthy(event_id) /\ InSeq(ids, event_id)

\* A full cache that refuses the new key and keeps the oldest.
MarkSeenDropNewest(ids, key, capacity) == IF InSeq(ids, key) \/ Len(ids) >= capacity THEN ids ELSE Append(ids, key)

\* An assignment that moves a key that is present to the end.
MarkSeenRefresh(ids, key, capacity) == LET added == Append(SelectSeq(ids, LAMBDA k : k # key), key) IN IF Len(added) > capacity THEN SubSeq(added, Len(added) - capacity + 1, Len(added)) ELSE added

\* An insertion that never evicts.
MarkSeenNoEvict(ids, key, capacity) == IF InSeq(ids, key) THEN ids ELSE Append(ids, key)

\* An OrderedDict assignment followed by the eviction loop: a new key goes
\* to the end, a present key keeps its place, and the oldest keys are
\* popped while the size exceeds the capacity.
MarkSeen(ids, key, capacity) ==
    LET added == IF InSeq(ids, key) THEN ids ELSE Append(ids, key) IN
    IF Len(added) > capacity
    THEN SubSeq(added, Len(added) - capacity + 1, Len(added))
    ELSE added

\* A check that lets every event through.
SkippedAsBotNever(body) == FALSE

\* is_bot and not is_dummy_report
SkippedAsBot(body) ==
    /\ (Truthy(body.bot_id) \/ body.subtype = "bot_message")
    /\ body.metadata_event_type # "dummy_report"

\* _resolve_patient_from_channel: the patient's anchor_message_ts, or
\* NoneVal when no patient has the channel.
resolve_patient_from_channel(channel) ==
    IF channel = PatientChannel THEN AnchorTs ELSE NoneVal

\* key = f"{channel}:{message_ts}"
ProcessedKey(channel, message_ts) == <<channel, message_ts>>

\* A check that never finds the message.
is_already_processed_never(messages, channel, message_ts) == FALSE

is_already_processed(messages, channel, message_ts) ==
    InSeq(messages, ProcessedKey(channel, message_ts))

\* A mark that leaves the cache as it is.
mark_as_processed_skip(messages, channel, message_ts) == messages

mark_as_processed(messages, channel, message_ts) ==
    MarkSeen(messages, ProcessedKey(channel, message_ts), MAX_PROCESSED)

\* The text of the exceptions reactions_add raises, as the parts that
\* str(e) is made of.
AlreadyReacted ==
    <<"The request to the Slack API failed.", "already_reacted">>
RateLimited == <<"The request to the Slack API failed.", "ratelimited">>
TimedOut == <<"timed out">>
OtherErrors == {RateLimited, TimedOut}

Returned == [raised |-> FALSE, text |-> <<>>]
Raised(text) == [raised |-> TRUE, text |-> text]

\* A comparison with the whole text of the exception.
ContainsWhole(text, part) == text = <<part>>

\* "already_reacted" in str(e)
Contains(text, part) == \E i \in DOMAIN text : text[i] = part

\* Slack's reactions.add for the bot user, one call: the outcomes and the
\* marks each leaves. The mark is set once; a second add is refused with
\* already_reacted. A call can fail for another reason before the mark is
\* set, and it can time out after the mark is set.
reactions_add(marks, item) ==
    (IF item \in marks
     THEN {[outcome |-> Raised(AlreadyReacted), marks |-> marks]}
     ELSE {[outcome |-> Returned, marks |-> marks \cup {item}]})
    \cup {[outcome |-> Raised(RateLimited), marks |-> marks]}
    \cup {[outcome |-> Raised(TimedOut), marks |-> marks \cup {item}]}

\* A claim that takes every failure for a lost claim.
claim_message_strict(outcome) == ~outcome.raised

\* A claim that is granted whatever the platform answers.
claim_message_always(outcome) == TRUE

\* _claim_message, from the outcome of its reactions_add call
claim_message(outcome) ==
    IF ~outcome.raised THEN TRUE
    ELSE IF Contains(outcome.text, "already_reacted") THEN FALSE
    ELSE TRUE

\* A detached _process task. gen and dups are kept for the properties: the
\* task was spawned by the gen-th insertion of its key into the instance's
\* _processed_event_ids, and dups requests with that key were answered as
\* duplicates while that insertion was in the cache. mark holds the
\* outcome of the task's reactions_add call, if it made one.
\* A task that the handler has already taken into the gated section.
NewTaskInside(body, gen) ==
    [event |-> body, gen |-> gen, dups |-> 0, pc |-> "routing",
     handler |-> NoneVal, mark |-> <<>>, claimed |-> FALSE,
     result |-> NoneVal, reported |-> 0, replied |-> 0]

NewTask(body, gen) ==
    [event |-> body, gen |-> gen, dups |-> 0, pc |-> "waiting",
     handler |-> NoneVal, mark |-> <<>>, claimed |-> FALSE,
     result |-> NoneVal, reported |-> 0, replied |-> 0]

\* The responses of slack_events: {"ok": True}, the 401 JSONResponse, and
\* the echo of the challenge; NoResponse before the first request.
NoResponse == [status_code |-> 0, content |-> NoneVal]
Accepted == [status_code |-> 200, content |-> "ok"]
InvalidSignature ==
    [status_code |-> 401, content |-> "Invalid Slack signature"]
ChallengeEcho == [status_code |-> 200, content |-> "challenge"]

IntakeInit ==
    /\ processed_event_ids = [i \in Instances |-> <<>>]
    /\ processed_messages = [i \in Instances |-> <<>>]
    /\ agent_semaphore = [i \in Instances |-> AgentSlots]
    /\ reactions = {}
    /\ tasks = [i \in Instances |-> <<>>]
    /\ inserted = [i \in Instances |-> [k \in Keys |-> 0]]
    /\ requests = 0
    /\ response = NoResponse
    /\ restarts = [i \in Instances |-> 0]

\* The intake at rest, for the specifications that do not run it.
IntakeIdle == IntakeInit

(***************************************************************************)
(* The dedup caches on their own                                           *)
(***************************************************************************)

\* The keys marked into the caches: the event keys of the bodies, and the
\* messages of the subject's channel.
LruEventKeys == {EventKey(b) : b \in {Report, Mention, Chat, BotPost}}
LruMessages == {<<PatientChannel, ts>> : ts \in {"ts1", "ts2", "ts3", "ts4"}}

\* The capacity of both caches, scaled down from 5000.
LruCapacity == 2

\* Both caches are empty when the module is loaded.
LruInit ==
    /\ lruCache = [ids |-> <<>>, messages |-> <<>>]
    /\ lruMarks = [ids |-> <<>>, messages |-> <<>>]

LruIdle == LruInit

\* The early dedup of slack_events on its own: a key that is in the cache
\* is reported seen and nothing is written; any other key is inserted and
\* the oldest keys are evicted.
LruMarkEvent(event_id) ==
    /\ Len(lruMarks.ids) < LruCapacity + 2
    /\ lruCache' = IF AlreadySeen(event_id, lruCache.ids) THEN lruCache ELSE [lruCache EXCEPT !.ids = MarkSeen(@, event_id, LruCapacity)]
    /\ lruMarks' = [lruMarks EXCEPT !.ids = Append(@, event_id)]
    /\ UNCHANGED nonLruVars

\* _mark_as_processed on its own: the assignment and the eviction loop,
\* for a key that is in the cache or not.
LruMarkMessage(channel, message_ts) ==
    /\ Len(lruMarks.messages) < LruCapacity + 2
    /\ lruCache' = [lruCache EXCEPT !.messages = MarkSeen(@, ProcessedKey(channel, message_ts), LruCapacity)]
    /\ lruMarks' = [lruMarks EXCEPT !.messages = Append(@, ProcessedKey(channel, message_ts))]
    /\ UNCHANGED nonLruVars

\* A duplicate request is counted against the task of the key's current
\* insertion.
CountDuplicate(ts, event_id, gen) ==
    [n \in DOMAIN ts |->
        IF EventKey(ts[n].event) = event_id /\ ts[n].gen = gen
        THEN [ts[n] EXCEPT !.dups = @ + 1]
        ELSE ts[n]]

\* POST /slack/events on instance i. Every branch answers at once: ok for
\* a retry, 401 for a bad signature, the challenge for a URL verification,
\* ok for everything else; only the last branch spawns a task, and it
\* answers without waiting for it.
slack_events(i, body, retry_num, signature, skip_verify) ==
    LET event_id == EventKey(body) IN
    /\ requests' = requests + 1
    /\ UNCHANGED <<processed_messages, agent_semaphore, reactions, restarts,
                   nonIntakeVars>>
    /\ IF IsRedelivery(retry_num)
       THEN /\ response' = Accepted
            /\ UNCHANGED <<processed_event_ids, inserted, tasks>>
       ELSE IF SignatureRejected(signature, skip_verify)
       THEN /\ response' = InvalidSignature
            /\ UNCHANGED <<processed_event_ids, inserted, tasks>>
       ELSE IF body.body_type = "url_verification"
       THEN /\ response' = ChallengeEcho
            /\ UNCHANGED <<processed_event_ids, inserted, tasks>>
       ELSE IF AlreadySeen(event_id, processed_event_ids[i])
       THEN /\ response' = Accepted
            /\ tasks' = [tasks EXCEPT ![i] =
                            CountDuplicate(@, event_id,
                                           inserted[i][event_id])]
            /\ UNCHANGED <<processed_event_ids, inserted>>
       ELSE /\ response' = Accepted
            /\ IF Truthy(event_id)
               THEN /\ processed_event_ids' =
                         [processed_event_ids EXCEPT ![i] =
                             MarkSeen(@, event_id, MAX_DEDUP_SIZE)]
                    /\ inserted' =
                         IF InSeq(processed_event_ids[i], event_id)
                         THEN inserted
                         ELSE [inserted EXCEPT ![i][event_id] = @ + 1]
               ELSE UNCHANGED <<processed_event_ids, inserted>>
            /\ IF /\ ~SkippedAsBot(body)
                  /\ body.type \in {"message", "app_mention"}
               THEN tasks' = [tasks EXCEPT ![i] = Append(@,
                         NewTask(body,
                             IF Truthy(event_id)
                             THEN inserted'[i][event_id] ELSE 0))]
               ELSE UNCHANGED tasks

\* A gate that lets every task in.
CanAcquireAlways(slots) == TRUE

\* Semaphore.acquire returns at once only while a slot is free.
CanAcquire(slots) == slots > 0

\* A task that enters route_event without the semaphore.
ProcessAcquireFree(i, n) ==
    /\ tasks[i][n].pc = "waiting"
    /\ tasks' = [tasks EXCEPT ![i][n].pc = "routing"]
    /\ UNCHANGED <<processed_event_ids, processed_messages, reactions,
                   agent_semaphore, inserted, requests, response, restarts,
                   nonIntakeVars>>

\* async with _agent_semaphore: task n of instance i takes a slot.
ProcessAcquire(i, n) ==
    /\ tasks[i][n].pc = "waiting"
    /\ CanAcquire(agent_semaphore[i])
    /\ agent_semaphore' = [agent_semaphore EXCEPT ![i] = @ - 1]
    /\ tasks' = [tasks EXCEPT ![i][n].pc = "routing"]
    /\ UNCHANGED <<processed_event_ids, processed_messages, reactions,
                   inserted, requests, response, restarts, nonIntakeVars>>

\* The task ends with a result, and leaving the "async with" block gives
\* its slot back.
Finished(t, result) == [t EXCEPT !.pc = "done", !.result = result]

\* A task end that keeps its slot.
ReleaseNever(i) == agent_semaphore

Release(i) == [agent_semaphore EXCEPT ![i] = @ + 1]

\* route_event up to the first collaborator call of the handler it
\* selects: the patient and token lookups, then, without suspension, the
\* check of _processed_messages, its update and, for a report, the claim.
route_event(i, n, has_token) ==
    LET t == tasks[i][n]
        event == t.event
        anchor_ts == resolve_patient_from_channel(event.channel)
        seen == is_already_processed(processed_messages[i], event.channel,
                                     event.ts)
        marked == [processed_messages EXCEPT ![i] =
                      mark_as_processed(@, event.channel, event.ts)]
    IN
    /\ t.pc = "routing"
    /\ UNCHANGED <<processed_event_ids, inserted, requests, response, restarts, nonIntakeVars>>
    /\ IF anchor_ts = NoneVal
       THEN /\ tasks' = [tasks EXCEPT ![i][n] = Finished(t, "no_patient")]
            /\ agent_semaphore' = Release(i)
            /\ UNCHANGED <<processed_messages, reactions>>
       ELSE IF ~has_token
       THEN /\ tasks' = [tasks EXCEPT ![i][n] = Finished(t, "no_token")]
            /\ agent_semaphore' = Release(i)
            /\ UNCHANGED <<processed_messages, reactions>>
       ELSE IF event.type = "message"
       THEN IF Truthy(event.thread_ts) /\ event.thread_ts = anchor_ts
            THEN \* _handle_report
                 IF seen
                 THEN /\ tasks' = [tasks EXCEPT ![i][n] =
                                      Finished(t, "already_processed")]
                      /\ agent_semaphore' = Release(i)
                      /\ UNCHANGED <<processed_messages, reactions>>
                 ELSE /\ processed_messages' = marked
                      /\ \E r \in reactions_add(reactions,
                                    ProcessedKey(event.channel, event.ts)) :
                            /\ reactions' = r.marks
                            /\ IF claim_message(r.outcome)
                               THEN /\ tasks' = [tasks EXCEPT ![i][n] =
                                          [t EXCEPT !.pc = "handling",
                                                    !.handler = "intake",
                                                    !.mark = <<r.outcome>>,
                                                    !.claimed = TRUE]]
                                    /\ UNCHANGED agent_semaphore
                               ELSE /\ tasks' = [tasks EXCEPT ![i][n] =
                                          [Finished(t, "already_claimed")
                                             EXCEPT !.mark = <<r.outcome>>]]
                                    /\ agent_semaphore' = Release(i)
            ELSE /\ tasks' = [tasks EXCEPT ![i][n] =
                                 Finished(t, "casual_chat")]
                 /\ agent_semaphore' = Release(i)
                 /\ UNCHANGED <<processed_messages, reactions>>
       ELSE IF event.type = "app_mention"
       THEN IF Truthy(event.ts) /\ seen
            THEN /\ tasks' = [tasks EXCEPT ![i][n] =
                                 Finished(t, "already_processed")]
                 /\ agent_semaphore' = Release(i)
                 /\ UNCHANGED <<processed_messages, reactions>>
            ELSE /\ processed_messages' =
                        IF Truthy(event.ts) THEN marked
                        ELSE processed_messages
                 /\ tasks' = [tasks EXCEPT ![i][n] =
                                [t EXCEPT !.pc = "handling",
                                          !.handler = "mention"]]
                 /\ UNCHANGED <<agent_semaphore, reactions>>
       ELSE /\ tasks' = [tasks EXCEPT ![i][n] = Finished(t, "unknown_type")]
            /\ agent_semaphore' = Release(i)
            /\ UNCHANGED <<processed_messages, reactions>>

RouteEvent(i, n) == \E has_token \in BOOLEAN : route_event(i, n, has_token)

\* The rest of _handle_report or _handle_mention runs to its end: the
\* report is stored and confirmed in the thread, or the mention answered.
HandleComplete(i, n) ==
    /\ tasks[i][n].pc = "handling"
    /\ tasks' = [tasks EXCEPT ![i][n] =
                    [Finished(@, @.handler) EXCEPT
                        !.reported = IF tasks[i][n].handler = "intake"
                                     THEN 1 ELSE 0,
                        !.replied = 1]]
    /\ agent_semaphore' = Release(i)
    /\ UNCHANGED <<processed_event_ids, processed_messages, reactions,
                   inserted, requests, response, restarts, nonIntakeVars>>

\* A failure that escapes the gated section with its slot.
HandleFailLeaking(i, n, stored) ==
    /\ tasks[i][n].pc = "handling"
    /\ stored => tasks[i][n].handler = "intake"
    /\ tasks' = [tasks EXCEPT ![i][n] =
                    [Finished(@, "error") EXCEPT
                        !.reported = IF stored THEN 1 ELSE 0]]
    /\ UNCHANGED <<processed_event_ids, processed_messages, reactions,
                   agent_semaphore, inserted, requests, response, restarts,
                   nonIntakeVars>>

\* A failure after which the task is queued again.
HandleFailRetrying(i, n, stored) ==
    /\ tasks[i][n].pc = "handling"
    /\ stored => tasks[i][n].handler = "intake"
    /\ tasks' = [tasks EXCEPT ![i][n] =
                    [@ EXCEPT !.pc = "waiting", !.result = "error",
                              !.reported = IF stored THEN 1 ELSE 0]]
    /\ agent_semaphore' = Release(i)
    /\ UNCHANGED <<processed_event_ids, processed_messages, reactions,
                   inserted, requests, response, restarts, nonIntakeVars>>

\* A collaborator fails or raises: the agent reports no success (nothing is
\* stored, nothing is posted), or chat_postMessage raises after
\* IntakeAgent.process has stored the report. _process logs the exception
\* and the task ends.
HandleFail(i, n, stored) ==
    /\ tasks[i][n].pc = "handling"
    /\ stored => tasks[i][n].handler = "intake"
    /\ tasks' = [tasks EXCEPT ![i][n] =
                    [Finished(@, "error") EXCEPT
                        !.reported = IF stored THEN 1 ELSE 0]]
    /\ agent_semaphore' = Release(i)
    /\ UNCHANGED <<processed_event_ids, processed_messages, reactions,
                   inserted, requests, response, restarts, nonIntakeVars>>

\* The process of instance i ends and starts anew: the module globals are
\* initialised again and the tasks that had not ended are lost with the
\* event loop. The reactions are kept by Slack.
Restart(i) ==
    /\ restarts[i] < MaxRestarts
    /\ restarts' = [restarts EXCEPT ![i] = @ + 1]
    /\ processed_event_ids' = [processed_event_ids EXCEPT ![i] = <<>>]
    /\ processed_messages' = [processed_messages EXCEPT ![i] = <<>>]
    /\ agent_semaphore' = [agent_semaphore EXCEPT ![i] = AgentSlots]
    /\ tasks' = [tasks EXCEPT ![i] =
                    [n \in DOMAIN @ |->
                        IF @[n].pc = "done" THEN @[n]
                        ELSE Finished(@[n], "lost")]]
    /\ UNCHANGED <<reactions, inserted, requests, response, nonIntakeVars>>

(***************************************************************************)
(* RiskService._calculate                                                  *)
(***************************************************************************)

\* counts[sev] after the counting loop: alerts whose severity, lower-cased
\* and defaulting to "low", is sev; other severities are not counted.
SeverityCount(unacked_alerts, sev) ==
    Cardinality({i \in DOMAIN unacked_alerts :
                    OrLowLower(unacked_alerts[i].severity) = sev})

Reason(tag, n) == [tag |-> tag, n |-> n]

\* A de-escalation branch that does not look at the source.
DeescalateIgnoringSource(current_level, current_source, latest_alert_at, now) ==
    IF latest_alert_at = NoTimestamp
    THEN [level |-> "low", reason |-> Reason("no_history", 0)]
    ELSE LET days_since == DaysSince(now, latest_alert_at) IN
         IF days_since >= QuietDays
         THEN [level |-> "low", reason |-> Reason("quiet", days_since)]
         ELSE [level |-> current_level, reason |-> Reason("recent_hold", 0)]

\* A step-down that drops straight to the lowest level.
DeescalateToFloor(current_level, current_source, latest_alert_at, now) ==
    IF current_source = "manual"
    THEN [level |-> current_level, reason |-> Reason("manual_no_change", 0)]
    ELSE IF latest_alert_at = NoTimestamp
    THEN [level |-> "low", reason |-> Reason("no_history", 0)]
    ELSE LET days_since == DaysSince(now, latest_alert_at) IN
         IF days_since >= StepDownDays
         THEN [level |-> "low", reason |-> Reason("quiet", days_since)]
         ELSE [level |-> current_level, reason |-> Reason("recent_hold", 0)]

\* The de-escalation branch (no unacknowledged alert is counted).
Deescalate(current_level, current_source, latest_alert_at, now) ==
    IF current_source = "manual"
    THEN [level |-> current_level, reason |-> Reason("manual_no_change", 0)]
    ELSE IF latest_alert_at = NoTimestamp
    THEN [level |-> "low", reason |-> Reason("no_history", 0)]
    ELSE LET days_since == DaysSince(now, latest_alert_at) IN
         IF days_since >= QuietDays
         THEN [level |-> "low", reason |-> Reason("quiet", days_since)]
         ELSE IF days_since >= StepDownDays
         THEN LET current_idx == IF InSeq(level_order, current_level)
                                 THEN IndexOf(level_order, current_level)
                                 ELSE 1
                  new_idx == Min(current_idx + 1, Len(level_order))
                  new_level == level_order[new_idx]
              IN IF new_level # current_level
                 THEN [level |-> new_level,
                       reason |-> Reason("step_down", days_since)]
                 ELSE [level |-> current_level, reason |-> Reason("keep", 0)]
         ELSE [level |-> current_level, reason |-> Reason("recent_hold", 0)]

\* The rules with the compounding rule for two medium alerts left out.
calculateNoCompounding(unacked_alerts, current_level, current_source, latest_alert_at, now) ==
    LET high == SeverityCount(unacked_alerts, "high")
        medium == SeverityCount(unacked_alerts, "medium")
        low == SeverityCount(unacked_alerts, "low")
    IN IF high >= 1
       THEN [level |-> "high", reason |-> Reason("unacked_high", high)]
       ELSE IF medium >= 1
       THEN [level |-> "medium", reason |-> Reason("unacked_medium", medium)]
       ELSE IF low >= 3
       THEN [level |-> "medium", reason |-> Reason("unacked_low", low)]
       ELSE IF low >= 1
       THEN [level |-> "low", reason |-> Reason("unacked_low", low)]
       ELSE Deescalate(current_level, current_source, latest_alert_at, now)

\* The escalation rules, first match wins, then the de-escalation branch.
\* `now` is the clock _calculate reads (datetime.now) in that branch.
calculate(unacked_alerts, current_level, current_source, latest_alert_at, now) ==
    LET high == SeverityCount(unacked_alerts, "high")
        medium == SeverityCount(unacked_alerts, "medium")
        low == SeverityCount(unacked_alerts, "low")
        total_unacked == high + medium + low
    IN IF high >= 1
       THEN [level |-> "high", reason |-> Reason("unacked_high", high)]
       ELSE IF medium >= 2
       THEN [level |-> "high", reason |-> Reason("unacked_medium", medium)]
       ELSE IF medium = 1
       THEN [level |-> "medium", reason |-> Reason("unacked_medium", 1)]
       ELSE IF low >= 3
       THEN [level |-> "medium", reason |-> Reason("unacked_low", low)]
       ELSE IF low >= 1
       THEN [level |-> "low", reason |-> Reason("unacked_low", low)]
       ELSE IF total_unacked = 0
       THEN Deescalate(current_level, current_source, latest_alert_at, now)
       ELSE [level |-> current_level, reason |-> Reason("keep", 0)]

\* A recalculate without the no-op test.
ChangedAlways(new_level, current_level) == TRUE

\* recalculate's test of the result: a no-op when the level is the current one.
Changed(new_level, current_level) == new_level # current_level

(***************************************************************************)
(* The document store, as RiskService and update_patient use it            *)
(***************************************************************************)

\* The one subject of RiskSpec, and an id no document has.
ThePatient == "p1"
MissingPatient == "p0"

\* limit=100 of the list_alerts calls of RiskService.
ListLimit == 100

Take(seq, n) == SubSeq(seq, 1, Min(n, Len(seq)))

\* Insert alert a into a list sorted by created_at descending, after every
\* element that is not older than it (list.sort is stable).
InsertByCreatedDesc(sorted, a) ==
    LET before == {i \in DOMAIN sorted : sorted[i].created_at >= a.created_at}
        k == Cardinality(before)
    IN SubSeq(sorted, 1, k) \o <<a>> \o SubSeq(sorted, k + 1, Len(sorted))

RECURSIVE SortByCreatedDesc(_)
SortByCreatedDesc(seq) ==
    IF seq = <<>> THEN <<>>
    ELSE InsertByCreatedDesc(SortByCreatedDesc(SubSeq(seq, 1, Len(seq) - 1)),
                             seq[Len(seq)])

\* FirestoreService.get_patient: <<document>>, or <<>> for None.
get_patient(pid, doc) == IF pid = ThePatient THEN <<doc>> ELSE <<>>

\* FirestoreService.list_alerts(patient_id, acknowledged, limit): the query
\* filters on the flag and cuts at limit, the severities present are
\* lower-cased, the list is sorted newest first and cut at limit again.
list_alerts(stored, acknowledged, limit) ==
    LET queried == Take(SelectSeq(stored,
                                  LAMBDA a : a.acknowledged = acknowledged),
                        limit)
        lowered == [i \in DOMAIN queried |->
                       IF queried[i].severity = NoneVal THEN queried[i]
                       ELSE [queried[i] EXCEPT !.severity = Lower(@)]]
    IN Take(SortByCreatedDesc(lowered), limit)

\* FirestoreService.get_latest_alert_timestamp: the creation time of the
\* most recent alert ever recorded for the subject, acknowledged or not.
get_latest_alert_timestamp(stored) ==
    IF stored = <<>> THEN NoTimestamp
    ELSE CHOOSE t \in {stored[i].created_at : i \in DOMAIN stored} :
            \A i \in DOMAIN stored : stored[i].created_at <= t

\* FirestoreService.create_risk_history_entry: one more entry, at the end.
create_risk_history_entry(entries, entry) == Append(entries, entry)

\* FirestoreService.update_patient on the risk fields: the given fields
\* replace the stored ones (data maps field names to values).
update_patient(doc, data) ==
    [f \in DOMAIN doc |-> IF f \in DOMAIN data THEN data[f] ELSE doc[f]]

\* The snapshot of unacknowledged counts that a history entry carries.
AlertSnapshot(unacked_alerts) ==
    [high |-> SeverityCount(unacked_alerts, "high"),
     medium |-> SeverityCount(unacked_alerts, "medium"),
     low |-> SeverityCount(unacked_alerts, "low")]

(***************************************************************************)
(* RiskSpec: bounds and initial states                                     *)
(***************************************************************************)

\* The clock advances ClockStep ticks at a time, MaxClockSteps times.
MaxClockSteps == 2
ClockStep == StepDownDays * TicksPerDay

\* The calls of one behaviour: two recalculate calls, concurrent or one
\* after the other, and one update_patient call that supplies a level.
RecalcIds == {1, 2}
ManualIds == {3}

\* Severities as create_alert stores them (AlertAgent lower-cases them).
StoredSeverities == {"high", "medium", "low"}

\* Levels a human supplies through update_patient.
ManualLevels == {"high", "medium", "low"}

NoReason == Reason(NoneVal, 0)

\* A record of mw keeps source_after, the source in the document right
\* after the call's update_patient, for the properties.
\* A record of rw before its call: pid and trigger are the arguments, the
\* fields up to reason are recalculate's locals, changed is the returned
\* flag. stored_level (the level as get_patient returned it) and
\* stored_after (the level in the document right after this call's
\* update_patient) are kept for the properties.
\* A subject as create_patient writes it, or as scripts/seed_demo_data.py
\* does: an upper-case level and no risk_level_source.
InitialPatients ==
    {[risk_level |-> "low", risk_level_source |-> "auto",
      risk_level_reason |-> NoReason, risk_level_updated_at |-> NoTimestamp]}
    \cup
    {[risk_level |-> l, risk_level_source |-> NoneVal,
      risk_level_reason |-> NoReason, risk_level_updated_at |-> NoTimestamp] :
        l \in {"HIGH"}}

IdleRecalc ==
    [pc |-> "idle", pid |-> NoneVal, trigger |-> NoneVal,
     stored_level |-> NoneVal, current_level |-> NoneVal,
     current_source |-> NoneVal, unacked_alerts |-> <<>>,
     latest_alert_at |-> NoTimestamp, new_level |-> NoneVal,
     reason |-> NoReason, stored_after |-> NoneVal, changed |-> FALSE]

IdleManual ==
    [pc |-> "idle", level |-> NoneVal, stored_level |-> NoneVal,
     manual |-> FALSE, now |-> NoTimestamp, unacked_alerts |-> <<>>,
     source_after |-> NoneVal]

\* The subject's alerts before the first call: none, or one alert of an
\* earlier day that has been acknowledged.
InitialAlerts ==
    {<<>>, <<[severity |-> "medium", acknowledged |-> TRUE, created_at |-> 0]>>}

RiskInit ==
    /\ patient \in InitialPatients
    /\ alerts \in InitialAlerts
    /\ history = <<>>
    /\ clock = 0
    /\ rw = [w \in RecalcIds |-> IdleRecalc]
    /\ mw = [m \in ManualIds |-> IdleManual]

\* The _calculate variables while another specification runs.
CalcIdle == calcIn = <<>> /\ calcOut = <<>>

\* The risk variables while another specification runs.
RiskIdle ==
    /\ patient = CHOOSE p \in InitialPatients : p.risk_level_source = "auto"
    /\ alerts = <<>>
    /\ history = <<>>
    /\ clock = 0
    /\ rw = [w \in RecalcIds |-> IdleRecalc]
    /\ mw = [m \in ManualIds |-> IdleManual]

(***************************************************************************)
(* The environment: time, new alerts, acknowledgments                      *)
(***************************************************************************)

\* Days pass between calls: a call's store operations take seconds.
AdvanceClock ==
    /\ clock + ClockStep <= MaxClockSteps * ClockStep
    /\ \A w \in RecalcIds : rw[w].pc \in {"idle", "done", "failed"}
    /\ \A m \in ManualIds : mw[m].pc \in {"idle", "done", "failed"}
    /\ clock' = clock + ClockStep
    /\ UNCHANGED <<patient, alerts, history, rw, mw, nonRiskVars>>

\* FirestoreService.create_alert: a new alert, unacknowledged, stamped now.
create_alert(stored, sev, now) ==
    Append(stored, [severity |-> sev, acknowledged |-> FALSE,
                    created_at |-> now])

\* An acknowledgment that flips the flag.
acknowledge_alert_toggle(stored, i) == [stored EXCEPT ![i].acknowledged = ~@]

\* FirestoreService.acknowledge_alert
acknowledge_alert(stored, i) == [stored EXCEPT ![i].acknowledged = TRUE]

(***************************************************************************)
(* RiskService.recalculate, one store call per step                        *)
(***************************************************************************)

\* Calls take the records in order: which record a call uses is no
\* property of the program.
NextIdle(recs, w) ==
    /\ recs[w].pc = "idle"
    /\ \A v \in DOMAIN recs : v < w => recs[v].pc # "idle"

\* The call's record at its first statement.
RecalcStart(w, pid, trigger) ==
    [rw EXCEPT ![w].pc = "get_patient", ![w].pid = pid,
               ![w].trigger = trigger]

\* AlertAgent.process saved a new alert and calls recalculate.
AlertCreated(w, sev) ==
    /\ NextIdle(rw, w)
    /\ alerts' = create_alert(alerts, sev, clock)
    /\ rw' = RecalcStart(w, ThePatient, "alert_created")
    /\ UNCHANGED <<patient, history, clock, mw, nonRiskVars>>

\* The acknowledge endpoints: acknowledge_alert, then recalculate.
AlertAcknowledged(w, i) ==
    /\ NextIdle(rw, w)
    /\ i \in DOMAIN alerts
    /\ alerts' = acknowledge_alert(alerts, i)
    /\ rw' = RecalcStart(w, ThePatient, "alert_acknowledged")
    /\ UNCHANGED <<patient, history, clock, mw, nonRiskVars>>

\* A recalculate call that follows no change of the alerts (the on-demand
\* scan that found nothing), for the subject or for an id without document.
AlertScan(w, pid) ==
    /\ NextIdle(rw, w)
    /\ rw' = RecalcStart(w, pid, "alert_scan")
    /\ UNCHANGED <<patient, alerts, history, clock, mw, nonRiskVars>>

\* A default that takes a missing source for auto.
SourceOrAuto(source) == IF source = NoneVal THEN "auto" ELSE source

\* patient.get("risk_level_source", "manual")
SourceOrManual(source) == IF source = NoneVal THEN "manual" ELSE source

\* get_patient, the early return for a missing subject, and the defaults of
\* current_level and current_source.
RecalcGetPatient(w) ==
    /\ rw[w].pc = "get_patient"
    /\ LET got == get_patient(rw[w].pid, patient) IN
       IF got = <<>>
       THEN rw' = [rw EXCEPT ![w].pc = "done", ![w].changed = FALSE]
       ELSE rw' = [rw EXCEPT
                ![w].pc = "list_alerts",
                ![w].stored_level = got[1].risk_level,
                ![w].current_level = OrLowLower(got[1].risk_level),
                ![w].current_source =
                    SourceOrManual(got[1].risk_level_source)]
    /\ UNCHANGED <<patient, alerts, history, clock, mw, nonRiskVars>>

RecalcListAlerts(w) ==
    /\ rw[w].pc = "list_alerts"
    /\ rw' = [rw EXCEPT ![w].pc = "latest",
                        ![w].unacked_alerts =
                            list_alerts(alerts, FALSE, ListLimit)]
    /\ UNCHANGED <<patient, alerts, history, clock, mw, nonRiskVars>>

\* get_latest_alert_timestamp, _calculate and the no-op return.
RecalcCalculate(w) ==
    /\ rw[w].pc = "latest"
    /\ LET latest == get_latest_alert_timestamp(alerts)
           r == calculate(rw[w].unacked_alerts, rw[w].current_level,
                          rw[w].current_source, latest, clock)
           changed == Changed(r.level, rw[w].current_level)
       IN rw' = [rw EXCEPT ![w].pc = IF changed THEN "update" ELSE "done",
                           ![w].latest_alert_at = latest,
                           ![w].new_level = r.level,
                           ![w].reason = r.reason,
                           ![w].changed = FALSE]
    /\ UNCHANGED <<patient, alerts, history, clock, mw, nonRiskVars>>

\* An update that leaves the source as the call read it.
RecalcUpdateDataKeepSource(r, now) == [risk_level |-> r.new_level, risk_level_source |-> r.current_source, risk_level_reason |-> r.reason, risk_level_updated_at |-> now]

\* An update that writes the level the call read.
RecalcUpdateDataStale(r, now) == [risk_level |-> r.current_level, risk_level_source |-> "auto", risk_level_reason |-> r.reason, risk_level_updated_at |-> now]

\* The fields recalculate writes to the subject's document.
RecalcUpdateData(r, now) ==
    [risk_level |-> r.new_level, risk_level_source |-> "auto",
     risk_level_reason |-> r.reason, risk_level_updated_at |-> now]

RecalcUpdatePatient(w) ==
    /\ rw[w].pc = "update"
    /\ patient' = update_patient(patient, RecalcUpdateData(rw[w], clock))
    /\ rw' = [rw EXCEPT ![w].pc = "history",
                        ![w].stored_after = patient'.risk_level]
    /\ UNCHANGED <<alerts, history, clock, mw, nonRiskVars>>

\* An entry whose previous_level is taken from the new level.
RecalcHistoryEntryNewAsPrevious(w, r) ==
    [previous_level |-> r.new_level, new_level |-> r.new_level,
     source |-> "auto", reason |-> r.reason, trigger |-> r.trigger,
     alert_snapshot |-> AlertSnapshot(r.unacked_alerts),
     created_by |-> "system", writer |-> w]

\* The history entry recalculate records; writer is the call that wrote it.
RecalcHistoryEntry(w, r) ==
    [previous_level |-> r.current_level, new_level |-> r.new_level,
     source |-> "auto", reason |-> r.reason, trigger |-> r.trigger,
     alert_snapshot |-> AlertSnapshot(r.unacked_alerts),
     created_by |-> "system", writer |-> w]

RecalcRecordHistory(w) ==
    /\ rw[w].pc = "history"
    /\ history' = create_risk_history_entry(history,
                                            RecalcHistoryEntry(w, rw[w]))
    /\ rw' = [rw EXCEPT ![w].pc = "done", ![w].changed = TRUE]
    /\ UNCHANGED <<patient, alerts, clock, mw, nonRiskVars>>

\* A store call of recalculate raises: the call ends there.
RecalcFail(w) ==
    /\ rw[w].pc \in {"get_patient", "list_alerts", "latest", "update",
                     "history"}
    /\ rw' = [rw EXCEPT ![w] = [IdleRecalc EXCEPT
                                    !.pc = "failed",
                                    !.stored_after = rw[w].stored_after]]
    /\ UNCHANGED <<patient, alerts, history, clock, mw, nonRiskVars>>

(***************************************************************************)
(* The manual override: update_patient with a risk_level, and              *)
(* RiskService.record_manual_change                                        *)
(***************************************************************************)

ManualStart(m, level) ==
    /\ NextIdle(mw, m)
    /\ mw' = [mw EXCEPT ![m].pc = "get_patient", ![m].level = level]
    /\ UNCHANGED <<patient, alerts, history, clock, rw, nonRiskVars>>

\* get_patient and the building of update_data: the manual fields are added
\* when the supplied level differs from the stored one.
ManualGetPatient(m) ==
    /\ mw[m].pc = "get_patient"
    /\ mw' = [mw EXCEPT ![m].pc = "update",
                        ![m].stored_level = patient.risk_level,
                        ![m].manual = (mw[m].level # patient.risk_level),
                        ![m].now = clock]
    /\ UNCHANGED <<patient, alerts, history, clock, rw, nonRiskVars>>

\* update_data of update_patient, restricted to the risk fields.
ManualUpdateData(r) ==
    IF r.manual
    THEN [risk_level |-> r.level, risk_level_source |-> "manual",
          risk_level_reason |-> Reason("manual_change", 0),
          risk_level_updated_at |-> r.now]
    ELSE [risk_level |-> r.level]

ManualUpdatePatient(m) ==
    /\ mw[m].pc = "update"
    /\ patient' = update_patient(patient, ManualUpdateData(mw[m]))
    /\ mw' = [mw EXCEPT ![m].pc = IF mw[m].manual THEN "list_alerts"
                                  ELSE "done",
                        ![m].source_after = patient'.risk_level_source]
    /\ UNCHANGED <<alerts, history, clock, rw, nonRiskVars>>

\* record_manual_change: the snapshot's list_alerts call.
ManualListAlerts(m) ==
    /\ mw[m].pc = "list_alerts"
    /\ mw' = [mw EXCEPT ![m].pc = "history",
                        ![m].unacked_alerts =
                            list_alerts(alerts, FALSE, ListLimit)]
    /\ UNCHANGED <<patient, alerts, history, clock, rw, nonRiskVars>>

\* The history entry record_manual_change records.
ManualHistoryEntry(m, r) ==
    [previous_level |-> r.stored_level, new_level |-> r.level,
     source |-> "manual", reason |-> Reason("manual_change_by_user", 0),
     trigger |-> "manual_update",
     alert_snapshot |-> AlertSnapshot(r.unacked_alerts),
     created_by |-> "user", writer |-> m]

ManualRecordHistory(m) ==
    /\ mw[m].pc = "history"
    /\ history' = create_risk_history_entry(history,
                                            ManualHistoryEntry(m, mw[m]))
    /\ mw' = [mw EXCEPT ![m].pc = "done"]
    /\ UNCHANGED <<patient, alerts, clock, rw, nonRiskVars>>

\* A store call of the override raises: the request ends there.
ManualFail(m) ==
    /\ mw[m].pc \in {"get_patient", "update", "list_alerts", "history"}
    /\ mw' = [mw EXCEPT ![m] = [IdleManual EXCEPT !.pc = "failed"]]
    /\ UNCHANGED <<patient, alerts, history, clock, rw, nonRiskVars>>

RiskNext ==
    \/ AdvanceClock
    \/ \E w \in RecalcIds, sev \in StoredSeverities : AlertCreated(w, sev)
    \/ \E w \in RecalcIds, i \in RecalcIds : AlertAcknowledged(w, i)
    \/ \E w \in RecalcIds, pid \in {ThePatient, MissingPatient} :
          AlertScan(w, pid)
    \/ \E w \in RecalcIds : RecalcGetPatient(w)
    \/ \E w \in RecalcIds : RecalcListAlerts(w)
    \/ \E w \in RecalcIds : RecalcCalculate(w)
    \/ \E w \in RecalcIds : RecalcUpdatePatient(w)
    \/ \E w \in RecalcIds : RecalcRecordHistory(w)
    \/ \E w \in RecalcIds : RecalcFail(w)
    \/ \E m \in ManualIds, level \in ManualLevels : ManualStart(m, level)
    \/ \E m \in ManualIds : ManualGetPatient(m)
    \/ \E m \in ManualIds : ManualUpdatePatient(m)
    \/ \E m \in ManualIds : ManualListAlerts(m)
    \/ \E m \in ManualIds : ManualRecordHistory(m)
    \/ \E m \in ManualIds : ManualFail(m)

RiskSpecInit == RiskInit /\ CalcIdle /\ IntakeIdle /\ LruIdle

RiskSpec == RiskSpecInit /\ [][RiskNext]_vars

(***************************************************************************)
(* Claims about RiskService.recalculate, checked under RiskSpec            *)
(***************************************************************************)

\* The history entries written by call w.
EntriesBy(w) == {i \in DOMAIN history : history[i].writer = w}

\* Call w has evaluated _calculate for the subject.
Calculated(w) ==
    rw[w].pid = ThePatient /\ rw[w].pc \in {"update", "history", "done"}

\* C5: a recalculate that read source manual (stored, or defaulted) and no
\* unacknowledged alert returns changed = false without writing the document
\* or the history, however old the latest alert is.
C5_ManualPinned ==
    \A w \in RecalcIds :
        (Calculated(w) /\ rw[w].current_source = "manual"
            /\ rw[w].unacked_alerts = <<>>)
        => /\ rw[w].pc = "done"
           /\ ~rw[w].changed
           /\ rw[w].new_level = rw[w].current_level
           /\ rw[w].stored_after = NoneVal
           /\ EntriesBy(w) = {}

\* A pinned high subject whose only alert is acknowledged and 14 days old:
\* the recalculation returned unchanged and the stored level is still high.
C5_Witness ==
    \E w \in RecalcIds :
        /\ rw[w].pc = "done" /\ rw[w].pid = ThePatient
        /\ rw[w].current_source = "manual" /\ rw[w].current_level = "high"
        /\ rw[w].unacked_alerts = <<>>
        /\ rw[w].latest_alert_at # NoTimestamp
        /\ clock - rw[w].latest_alert_at >= QuietDays * TicksPerDay
        /\ ~rw[w].changed
        /\ patient.risk_level = rw[w].stored_level
        /\ patient.risk_level_source # "auto"

\* C9: a recalculate that returned changed = true has appended exactly one
\* history entry; its previous_level is the level the document held when the
\* call read it (lower-cased, as recalculate compares levels), its new_level
\* is the level the call stored, and the two differ.
C9_HistoryAppend ==
    \A w \in RecalcIds :
        (rw[w].pc = "done" /\ rw[w].changed)
        => /\ Cardinality(EntriesBy(w)) = 1
           /\ \A i \in EntriesBy(w) :
                /\ history[i].previous_level = OrLowLower(rw[w].stored_level)
                /\ history[i].new_level = rw[w].stored_after
                /\ history[i].new_level # history[i].previous_level
                /\ history[i].source = "auto"

\* A changed recalculation of a subject stored as "HIGH": one entry, from
\* high to the level now in the document.
C9_Witness ==
    \E w \in RecalcIds :
        /\ rw[w].pc = "done" /\ rw[w].changed
        /\ rw[w].stored_level = "HIGH"
        /\ Len(history) = 1
        /\ history[1].writer = w
        /\ history[1].previous_level = "high"
        /\ history[1].new_level = patient.risk_level

\* C10: a recalculate for an id without document, or one whose computed
\* level is the current level, returns changed = false and has written
\* neither the document nor a history entry.
C10_NoOpFrame ==
    \A w \in RecalcIds :
        (/\ rw[w].pc \in {"update", "history", "done"}
         /\ \/ rw[w].pid = MissingPatient
            \/ rw[w].new_level = rw[w].current_level)
        => /\ rw[w].pc = "done"
           /\ ~rw[w].changed
           /\ rw[w].stored_after = NoneVal
           /\ EntriesBy(w) = {}

\* One call ended as a no-op although an alert was unacknowledged, another
\* ended for an id without document; the document and the history are as
\* they were created.
C10_Witness ==
    \E w, v \in RecalcIds :
        /\ rw[w].pc = "done" /\ rw[w].pid = ThePatient
        /\ rw[w].unacked_alerts # <<>>
        /\ rw[w].new_level = rw[w].current_level
        /\ rw[v].pc = "done" /\ rw[v].pid = MissingPatient
        /\ patient \in InitialPatients
        /\ history = <<>>

\* C11 as stated: every finished update_patient call that supplied a level
\* left the document with source manual and appended exactly one history
\* entry, with source manual and trigger manual_update.
C11_OverrideAlwaysManual ==
    \A m \in ManualIds :
        mw[m].pc = "done"
        => /\ mw[m].source_after = "manual"
           /\ Cardinality(EntriesBy(m)) = 1
           /\ \A i \in EntriesBy(m) :
                 /\ history[i].source = "manual"
                 /\ history[i].trigger = "manual_update"

\* C12 as stated: once two recalculate calls, each started after its own
\* new alert, have both returned (and no override ran), the stored level
\* is the one _calculate yields for the alerts then outstanding.
C12_FinalLevelFresh ==
    (/\ \A w \in RecalcIds :
            rw[w].pc = "done" /\ rw[w].trigger = "alert_created"
     /\ \A m \in ManualIds : mw[m].pc = "idle")
    => OrLowLower(patient.risk_level) =
          calculate(list_alerts(alerts, FALSE, ListLimit),
                    OrLowLower(patient.risk_level),
                    patient.risk_level_source,
                    get_latest_alert_timestamp(alerts), clock).level

(***************************************************************************)
(* CalcSpec: _calculate on bounded inputs                                  *)
(***************************************************************************)

\* Longest list of unacknowledged alerts handed to _calculate.
MaxCalcAlerts == 5
\* Longest quiet period tried, in ticks after the latest alert.
MaxQuietTicks == 60

\* Severities as _calculate receives them from list_alerts, which lower-cases
\* the stored ones: the three it counts, a missing severity, and one it does
\* not know.
CalcSeverities == {"high", "medium", "low", NoneVal, "critical"}

\* Current levels handed to _calculate: the three of level_order and one
\* that is not in it.
CalcLevels == {"high", "medium", "low", "urgent"}

CalcSources == {"auto", "manual"}

\* The tick of the latest alert in the inputs, when there is one.
LatestAt == 1

\* Clock readings around the day thresholds: half a day before the latest
\* alert, then just below, at and just above each threshold, and far after.
CalcNows ==
    {0, LatestAt + MaxQuietTicks}
        \cup {LatestAt + d * TicksPerDay + k :
                 d \in {StepDownDays, QuietDays}, k \in {-1, 0, 1}}

CalcInit ==
    /\ calcIn \in {r \in [alerts : {<<>>},
                          level : CalcLevels,
                          source : CalcSources,
                          latest : {NoTimestamp, LatestAt},
                          now : CalcNows] :
                      r.latest = NoTimestamp => r.now = 0}
    /\ calcOut = <<>>

\* The caller adds one more unacknowledged alert to the list.
CalcAddAlert(sev) ==
    /\ Len(calcIn.alerts) < MaxCalcAlerts
    /\ calcIn' = [calcIn EXCEPT !.alerts = Append(@, [severity |-> sev])]
    /\ calcOut' = <<>>
    /\ UNCHANGED nonCalcVars

\* One call of _calculate, and recalculate's comparison of its result;
\* calcOut is <<>> before the call and <<result>> after it.
CalcEvaluate ==
    /\ calcOut = <<>>
    /\ LET r == calculate(calcIn.alerts, calcIn.level, calcIn.source,
                          calcIn.latest, calcIn.now)
       IN calcOut' = <<[level |-> r.level, reason |-> r.reason,
                        changed |-> Changed(r.level, calcIn.level)]>>
    /\ UNCHANGED <<calcIn, nonCalcVars>>

CalcNext ==
    \/ \E sev \in CalcSeverities : CalcAddAlert(sev)
    \/ CalcEvaluate

CalcSpecInit == CalcInit /\ RiskIdle /\ IntakeIdle /\ LruIdle

CalcSpec == CalcSpecInit /\ [][CalcNext]_vars

(***************************************************************************)
(* Claims about _calculate, checked under CalcSpec                         *)
(***************************************************************************)

CalcDone == calcOut # <<>>
CalcHigh == SeverityCount(calcIn.alerts, "high")
CalcMedium == SeverityCount(calcIn.alerts, "medium")
CalcLow == SeverityCount(calcIn.alerts, "low")
CalcNoneCounted == CalcHigh = 0 /\ CalcMedium = 0 /\ CalcLow = 0
\* Ticks between the latest alert and the clock reading.
CalcElapsed == calcIn.now - calcIn.latest

\* C6: with at least one counted unacknowledged alert the level is given by
\* the first matching rule (high>=1: high; medium>=2: high; medium=1: medium;
\* low>=3: medium; low>=1: low), whatever the current level, the source and
\* the elapsed time are; and changed holds exactly when the returned level
\* differs from the current level.
C6_EscalationRules ==
    CalcDone =>
        /\ CalcHigh >= 1 => calcOut[1].level = "high"
        /\ CalcHigh = 0 /\ CalcMedium >= 2 => calcOut[1].level = "high"
        /\ CalcHigh = 0 /\ CalcMedium = 1 => calcOut[1].level = "medium"
        /\ CalcHigh = 0 /\ CalcMedium = 0 /\ CalcLow >= 3
               => calcOut[1].level = "medium"
        /\ CalcHigh = 0 /\ CalcMedium = 0 /\ CalcLow \in {1, 2}
               => calcOut[1].level = "low"
        /\ calcOut[1].changed <=> calcOut[1].level # calcIn.level

\* Two medium and three low alerts on a low/auto subject gave high.
C6_Witness ==
    /\ CalcDone
    /\ CalcHigh = 0 /\ CalcMedium = 2 /\ CalcLow = 3
    /\ calcIn.level = "low" /\ calcIn.source = "auto"
    /\ calcOut[1].level = "high" /\ calcOut[1].changed

\* C7: nothing counted, source auto and the latest alert at least 7 and less
\* than 14 days ago: high gives medium, medium gives low, and low stays low
\* with changed = false.
C7_OneStepDown ==
    (/\ CalcDone /\ CalcNoneCounted /\ calcIn.source = "auto"
     /\ calcIn.latest # NoTimestamp
     /\ CalcElapsed >= StepDownDays * TicksPerDay
     /\ CalcElapsed < QuietDays * TicksPerDay)
    => /\ calcIn.level = "high"
            => calcOut[1].level = "medium" /\ calcOut[1].changed
       /\ calcIn.level = "medium"
            => calcOut[1].level = "low" /\ calcOut[1].changed
       /\ calcIn.level = "low"
            => calcOut[1].level = "low" /\ ~calcOut[1].changed

\* A high/auto subject, 13.5 days after its latest alert, stepped to medium.
C7_Witness ==
    /\ CalcDone /\ calcIn.alerts = <<>> /\ calcIn.source = "auto"
    /\ calcIn.level = "high"
    /\ CalcElapsed = QuietDays * TicksPerDay - 1
    /\ calcOut[1].level = "medium" /\ calcOut[1].changed

\* C8: nothing counted and source auto: low when no alert was ever recorded,
\* low when the latest alert is 14 days old or older, and the current level
\* with changed = false when it is less than 7 days old.
C8_QuietAndRecent ==
    (CalcDone /\ CalcNoneCounted /\ calcIn.source = "auto")
    => /\ calcIn.latest = NoTimestamp => calcOut[1].level = "low"
       /\ (calcIn.latest # NoTimestamp
              /\ CalcElapsed >= QuietDays * TicksPerDay)
            => calcOut[1].level = "low"
       /\ (calcIn.latest # NoTimestamp
              /\ CalcElapsed < StepDownDays * TicksPerDay)
            => calcOut[1].level = calcIn.level /\ ~calcOut[1].changed

\* A high/auto subject held at 6.5 days, one dropped to low at 14 days or
\* more, and one without any alert set to low.
C8_WitnessHold ==
    /\ CalcDone /\ calcIn.alerts = <<>> /\ calcIn.source = "auto"
    /\ calcIn.level = "high" /\ calcIn.latest # NoTimestamp
    /\ CalcElapsed = StepDownDays * TicksPerDay - 1
    /\ calcOut[1].level = "high" /\ ~calcOut[1].changed

(***************************************************************************)
(* Spec: the intake of the instances                                       *)
(***************************************************************************)

Init == IntakeInit /\ CalcIdle /\ RiskIdle /\ LruIdle

Next ==
    \/ \E i \in Instances, r \in Requests :
            /\ requests < MaxRequests
            /\ slack_events(i, r.body, r.retry_num, r.signature, r.skip_verify)
    \/ \E i \in Instances : \E n \in DOMAIN tasks[i] : ProcessAcquire(i, n)
    \/ \E i \in Instances : \E n \in DOMAIN tasks[i] : RouteEvent(i, n)
    \/ \E i \in Instances : \E n \in DOMAIN tasks[i] : HandleComplete(i, n)
    \/ \E i \in Instances : \E n \in DOMAIN tasks[i], stored \in BOOLEAN :
            HandleFail(i, n, stored)

Spec == Init /\ [][Next]_vars

(***************************************************************************)
(* GateSpec: one instance under more admitted events than it has slots     *)
(***************************************************************************)

\* Requests to the instance in one behaviour.
MaxGateRequests == 4

\* The instance that receives them.
GateInstance == 1

\* The bodies that spawn a task.
GateBodies == {Report, Mention, Chat, Stray}

GateNext ==
    \/ \E body \in GateBodies :
            /\ requests < MaxGateRequests
            /\ slack_events(GateInstance, body, NoRetry, "valid", FALSE)
    \/ \E n \in DOMAIN tasks[GateInstance] : ProcessAcquire(GateInstance, n)
    \/ \E n \in DOMAIN tasks[GateInstance] : RouteEvent(GateInstance, n)
    \/ \E n \in DOMAIN tasks[GateInstance] : HandleComplete(GateInstance, n)
    \/ \E n \in DOMAIN tasks[GateInstance], stored \in BOOLEAN :
            HandleFail(GateInstance, n, stored)

GateSpec == Init /\ [][GateNext]_vars

(***************************************************************************)
(* Claims about the intake, checked under Spec                             *)
(***************************************************************************)

\* The tasks of instance i that the g-th insertion of key k admitted.
TasksOf(i, k, g) ==
    {n \in DOMAIN tasks[i] :
        EventKey(tasks[i][n].event) = k /\ tasks[i][n].gen = g}

\* Task n of instance i has stored a report or posted a reply.
HasEffects(i, n) == tasks[i][n].reported + tasks[i][n].replied > 0

\* C1 (amended): within one instance, while a key stays in
\* _processed_event_ids, the requests that carry it admit one task, and
\* that task stores at most one report and posts at most one reply.
C1_AtMostOnce ==
    \A i \in Instances, k \in Keys :
        \A g \in 1..inserted[i][k] :
            /\ Cardinality(TasksOf(i, k, g)) <= 1
            /\ \A n \in TasksOf(i, k, g) :
                  tasks[i][n].reported <= 1 /\ tasks[i][n].replied <= 1

\* The report reached instance 1 three times while its key was cached:
\* one task, one stored report, one reply.
C1_Witness ==
    /\ InSeq(processed_event_ids[1], EventKey(Report))
    /\ \E n \in DOMAIN tasks[1] :
          /\ tasks[1][n].event = Report
          /\ tasks[1][n].gen = inserted[1][EventKey(Report)]
          /\ tasks[1][n].dups = 2
          /\ tasks[1][n].pc = "done"
          /\ tasks[1][n].reported = 1 /\ tasks[1][n].replied = 1

\* C1 as stated: when only one instance receives requests, every finished
\* task of a report or a mention has produced its side effects once.
C1_ExactlyOnce ==
    \A i \in Instances :
        (\A j \in Instances \ {i} : processed_event_ids[j] = <<>>)
        => \A n \in DOMAIN tasks[i] :
              (tasks[i][n].pc = "done"
                  /\ tasks[i][n].event \in {Report, Mention})
              => /\ tasks[i][n].replied = 1
                 /\ tasks[i][n].event = Report => tasks[i][n].reported = 1

\* The reactions_add calls made so far, as <<instance, task>>.
MarkCalls == {c \in Instances \X (1..MaxRequests) :
                 /\ c[2] \in DOMAIN tasks[c[1]]
                 /\ tasks[c[1]][c[2]].mark # <<>>}

MarkOutcome(c) == tasks[c[1]][c[2]].mark[1]

MarkedItem(c) ==
    ProcessedKey(tasks[c[1]][c[2]].event.channel, tasks[c[1]][c[2]].event.ts)

\* The call returned, or was refused with the conflict error.
SuccessOrConflict(c) ==
    ~MarkOutcome(c).raised \/ MarkOutcome(c).text = AlreadyReacted

C3_ExactlyOneClaim ==
    \A c \in MarkCalls :
        LET calls == {d \in MarkCalls : MarkedItem(d) = MarkedItem(c)} IN
        (\A d \in calls : SuccessOrConflict(d))
        => Cardinality({d \in calls : tasks[d[1]][d[2]].claimed}) = 1

\* Both instances called _claim_message for the report: one call was
\* granted and its task is still at work, the other was refused.
C3_Witness ==
    \E i, j \in Instances :
        \E n \in DOMAIN tasks[i], m \in DOMAIN tasks[j] :
            /\ i # j
            /\ tasks[i][n].event = Report /\ tasks[j][m].event = Report
            /\ tasks[i][n].mark = <<Returned>>
            /\ tasks[i][n].claimed /\ tasks[i][n].pc = "handling"
            /\ tasks[j][m].mark = <<Raised(AlreadyReacted)>>
            /\ ~tasks[j][m].claimed
            /\ tasks[j][m].result = "already_claimed"

\* C4: _claim_message returns True when reactions_add returns, False when
\* it raises the conflict error, True when it raises anything else; a
\* granted claim goes on to the intake, a refused one ends the task as
\* already_claimed without side effects.
C4_ClaimMapping ==
    \A c \in MarkCalls :
        LET t == tasks[c[1]][c[2]]
            outcome == MarkOutcome(c)
        IN
        /\ ~outcome.raised => t.claimed
        /\ outcome = Raised(AlreadyReacted) => ~t.claimed
        /\ (outcome.raised /\ outcome.text \in OtherErrors) => t.claimed
        /\ t.claimed => t.handler = "intake"
        /\ ~t.claimed =>
              /\ t.pc = "done" /\ t.result = "already_claimed"
              /\ ~HasEffects(c[1], c[2])

\* One call timed out after the mark was set and was granted all the same;
\* the other instance's call met the mark and was refused.
C4_Witness ==
    \E c, d \in MarkCalls :
        /\ MarkOutcome(c) = Raised(TimedOut)
        /\ tasks[c[1]][c[2]].claimed
        /\ tasks[c[1]][c[2]].reported = 1
        /\ MarkOutcome(d) = Raised(AlreadyReacted)
        /\ ~tasks[d[1]][d[2]].claimed

(***************************************************************************)
(* Claims about the admission gate, checked under GateSpec                 *)
(***************************************************************************)

\* The tasks of instance i inside "async with _agent_semaphore".
Inside(i) ==
    {n \in DOMAIN tasks[i] : tasks[i][n].pc \in {"routing", "handling"}}

Waiting(i) == {n \in DOMAIN tasks[i] : tasks[i][n].pc = "waiting"}

\* C13: at most AgentSlots (3) tasks of an instance are inside the gated
\* section at the same time.
C13_GateBound ==
    \A i \in Instances : Cardinality(Inside(i)) <= AgentSlots

\* Four events were admitted: three tasks are inside, the fourth waits.
C13_Witness ==
    /\ Cardinality(Inside(GateInstance)) = AgentSlots
    /\ Waiting(GateInstance) # {}
    /\ agent_semaphore[GateInstance] = 0

\* C14: the slots an instance has handed out are exactly those of the
\* tasks inside the gated section, so a task that has ended, normally or
\* by an exception, holds none, and all slots are free when no task is
\* inside.
C14_SlotsMatchTasks ==
    \A i \in Instances :
        /\ agent_semaphore[i] = AgentSlots - Cardinality(Inside(i))
        /\ Inside(i) = {} => agent_semaphore[i] = AgentSlots

\* Four tasks have ended, one of them by an exception and one after a
\* completed intake, and all slots are free again.
C14_Witness ==
    /\ Len(tasks[GateInstance]) = 4
    /\ \A n \in DOMAIN tasks[GateInstance] :
          tasks[GateInstance][n].pc = "done"
    /\ \E n \in DOMAIN tasks[GateInstance] :
          tasks[GateInstance][n].result = "error"
    /\ \E n \in DOMAIN tasks[GateInstance] :
          tasks[GateInstance][n].result = "intake"
    /\ agent_semaphore[GateInstance] = AgentSlots

\* Task n of instance i ends by an exception in this step.
RaisesIn(i, n) ==
    /\ n \in DOMAIN tasks[i]
    /\ tasks[i][n].pc = "handling"
    /\ tasks'[i][n].pc = "done" /\ tasks'[i][n].result = "error"

\* C15: the step in which a task ends by an exception leaves the response,
\* the caches and every other task of every instance as they were, and
\* gives the task's slot back: the slots free for the other tasks grow by
\* one and no other instance's slots change.
C15_FailureIsolated ==
    [][\A i \in Instances : \A n \in 1..MaxGateRequests + 1 :
          RaisesIn(i, n)
          => /\ response' = response
             /\ requests' = requests
             /\ processed_event_ids' = processed_event_ids
             /\ processed_messages' = processed_messages
             /\ \A j \in Instances : \A m \in DOMAIN tasks[j] :
                   <<j, m>> # <<i, n>> => tasks'[j][m] = tasks[j][m]
             /\ \A j \in Instances : Len(tasks'[j]) = Len(tasks[j])
             /\ agent_semaphore'[i] = agent_semaphore[i] + 1
             /\ \A j \in Instances \ {i} :
                   agent_semaphore'[j] = agent_semaphore[j]]_vars

\* A task has ended by an exception while another was waiting for a slot;
\* that one has since run to the end of its handler.
C15_Witness ==
    \E n, m \in DOMAIN tasks[GateInstance] :
        /\ n < m
        /\ tasks[GateInstance][n].result = "error"
        /\ tasks[GateInstance][m].pc = "done"
        /\ tasks[GateInstance][m].result \in {"intake", "mention"}
        /\ Len(tasks[GateInstance]) = 4
        /\ response = Accepted
        /\ agent_semaphore[GateInstance]
              = AgentSlots - Cardinality(Inside(GateInstance))

\* Instance i admits an event in this step: its handler spawns a task.
Admits(i) == Len(tasks'[i]) = Len(tasks[i]) + 1

\* C16: the handler can run for a message or mention in every state,
\* whatever the number of free slots; the step in which it admits an event
\* answers ok, touches no slot and no earlier task, and leaves the new task
\* before its first step; no step of a task changes the response.
C16_AcceptedAtOnce ==
    /\ [](\A body \in GateBodies :
             ENABLED slack_events(GateInstance, body, NoRetry, "valid", FALSE))
    /\ [][\A i \in Instances :
            /\ Admits(i)
               => /\ response' = Accepted
                  /\ agent_semaphore' = agent_semaphore
                  /\ tasks'[i][Len(tasks'[i])].pc = "waiting"
                  /\ \A n \in DOMAIN tasks[i] : tasks'[i][n] = tasks[i][n]
            /\ requests' = requests => response' = response]_vars

\* With all three slots taken, a fourth event was admitted and answered;
\* its task has not entered the gate.
C16_Witness ==
    /\ Len(tasks[GateInstance]) = AgentSlots + 1
    /\ \A n \in 1..AgentSlots :
          tasks[GateInstance][n].pc \in {"routing", "handling"}
    /\ tasks[GateInstance][AgentSlots + 1].pc = "waiting"
    /\ agent_semaphore[GateInstance] = 0
    /\ requests = AgentSlots + 1
    /\ response = Accepted

(***************************************************************************)
(* Claims about the handler's early returns and the caches, under Spec     *)
(***************************************************************************)

\* What a request that is not processed must leave alone.
IntakeUntouched ==
    UNCHANGED <<processed_event_ids, processed_messages, reactions, tasks,
                agent_semaphore, inserted>>

\* The requests that carry a non-empty retry number.
RetriedRequests == {r \in Requests : r.retry_num \notin {NoRetry, ""}}

\* C17: a request with a non-empty X-Slack-Retry-Num is answered ok and
\* writes no cache, sets no mark and spawns no task, whatever its body and
\* signature headers.
\* (Stated as: a step that receives a request and does not answer ok with
\* everything else untouched is not the step of a retry.)
C17_RetryIsNoOp ==
    [][(requests' # requests /\ ~(response' = Accepted /\ IntakeUntouched))
       => \A i \in Instances, r \in RetriedRequests :
             ~slack_events(i, r.body, r.retry_num, r.signature, r.skip_verify)]_vars

\* The first request was a retry: it was answered ok and nothing was
\* cached or spawned.
C17_Witness ==
    /\ requests = 1
    /\ response = Accepted
    /\ \A i \in Instances :
          /\ processed_event_ids[i] = <<>>
          /\ processed_messages[i] = <<>>
          /\ tasks[i] = <<>>
    /\ reactions = {}

\* The requests without retry number that are verified and whose headers
\* do not verify.
UnverifiedRequests ==
    {r \in Requests : r.retry_num = NoRetry /\ r.signature # "valid" /\ ~r.skip_verify}

\* C18: a request without retry number whose signature verification fails
\* is answered 401 and writes no cache, sets no mark and spawns no task.
\* (Stated as: a step that receives a request and does not answer 401 with
\* everything else untouched is not the step of such a request.)
C18_BadSignatureRejected ==
    [][(requests' # requests /\ ~(response' = InvalidSignature /\ IntakeUntouched))
       => \A i \in Instances, r \in UnverifiedRequests :
             ~slack_events(i, r.body, r.retry_num, r.signature, r.skip_verify)]_vars

\* The first request failed verification: it was answered 401 and nothing
\* was cached or spawned.
C18_Witness ==
    /\ requests = 1
    /\ response = InvalidSignature
    /\ \A i \in Instances :
          /\ processed_event_ids[i] = <<>>
          /\ processed_messages[i] = <<>>
          /\ tasks[i] = <<>>
    /\ reactions = {}

\* The keys of _processed_messages that a task of instance i has marked.
MarkedBy(i) ==
    {ProcessedKey(tasks[i][n].event.channel, tasks[i][n].event.ts) :
        n \in {m \in DOMAIN tasks[i] : tasks[i][m].handler # NoneVal}}

\* C19: in every state, each instance's event-id cache holds at most
\* MAX_DEDUP_SIZE keys and its channel:message_ts cache at most
\* MAX_PROCESSED keys.
C19_CachesBounded ==
    \A i \in Instances :
        /\ Len(processed_event_ids[i]) <= MAX_DEDUP_SIZE
        /\ Len(processed_messages[i]) <= MAX_PROCESSED

\* An instance whose two caches are full and have each lost a key that
\* was inserted before.
C19_Witness ==
    \E i \in Instances :
        /\ Len(processed_event_ids[i]) = MAX_DEDUP_SIZE
        /\ \E k \in Keys :
              inserted[i][k] > 0 /\ ~InSeq(processed_event_ids[i], k)
        /\ Len(processed_messages[i]) = MAX_PROCESSED
        /\ \E k \in MarkedBy(i) : ~InSeq(processed_messages[i], k)

(***************************************************************************)
(* LruSpec                                                                 *)
(***************************************************************************)

LruSpecInit == LruInit /\ CalcIdle /\ RiskIdle /\ IntakeIdle

LruNext ==
    \/ \E event_id \in LruEventKeys : LruMarkEvent(event_id)
    \/ \E m \in LruMessages : LruMarkMessage(m[1], m[2])

LruSpec == LruSpecInit /\ [][LruNext]_vars

\* A sequence without repetition.
Distinct(seq) == \A a, b \in DOMAIN seq : seq[a] = seq[b] => a = b

\* C20: when capacity+1 distinct keys have been marked into an empty
\* cache, the cache holds capacity keys: the first key marked is not
\* reported seen, and each of the other keys is.
C20_EvictsFirstInserted ==
    /\ (Len(lruMarks.ids) = LruCapacity + 1 /\ Distinct(lruMarks.ids))
       => /\ Len(lruCache.ids) = LruCapacity
          /\ ~AlreadySeen(lruMarks.ids[1], lruCache.ids)
          /\ \A j \in 2..(LruCapacity + 1) :
                AlreadySeen(lruMarks.ids[j], lruCache.ids)
    /\ (Len(lruMarks.messages) = LruCapacity + 1 /\ Distinct(lruMarks.messages))
       => /\ Len(lruCache.messages) = LruCapacity
          /\ ~is_already_processed(lruCache.messages, lruMarks.messages[1][1], lruMarks.messages[1][2])
          /\ \A j \in 2..(LruCapacity + 1) :
                is_already_processed(lruCache.messages, lruMarks.messages[j][1], lruMarks.messages[j][2])

\* Both caches have taken capacity+1 distinct keys and have lost the first.
C20_Witness ==
    /\ Len(lruMarks.ids) = LruCapacity + 1
    /\ Distinct(lruMarks.ids)
    /\ ~InSeq(lruCache.ids, lruMarks.ids[1])
    /\ Len(lruMarks.messages) = LruCapacity + 1
    /\ Distinct(lruMarks.messages)
    /\ ~InSeq(lruCache.messages, lruMarks.messages[1])

(***************************************************************************)
(* _calculate and the clock, under CalcSpec                                *)
(***************************************************************************)

\* _calculate is passed four arguments; calcIn.now is the value that its
\* datetime.now(timezone.utc) returns during the call.
CalculatedAt(now) ==
    calculate(calcIn.alerts, calcIn.level, calcIn.source, calcIn.latest, now)

\* C21: the result of an evaluation is determined by the arguments that
\* _calculate is passed (the unacknowledged alerts, the current level, the
\* source and the latest alert's timestamp): the same call made at any
\* other time of the clock returns the same level and reason.
C21_DeterminedByArguments ==
    calcOut # <<>>
    => \A now \in CalcNows :
          /\ CalculatedAt(now).level = calcOut[1].level
          /\ CalculatedAt(now).reason = calcOut[1].reason

(***************************************************************************)
(* Failed tasks, under Spec                                                *)
(***************************************************************************)

\* The requests that pass the retry test and the verification.
AdmittedRequests ==
    {r \in Requests : ~Truthy(r.retry_num) /\ (r.skip_verify \/ r.signature = "valid")}

\* C22: a task that has ended in failure stays ended, with what it had
\* stored and posted; and while its event's key is in the instance's cache,
\* a later delivery of that event to the instance is answered ok and
\* spawns no task.
C22_FailedNotRetried ==
    [][\A i \in Instances : \A n \in DOMAIN tasks[i] :
          tasks[i][n].result = "error"
          => /\ tasks'[i][n].pc = "done"
             /\ tasks'[i][n].result = "error"
             /\ tasks'[i][n].reported = tasks[i][n].reported
             /\ tasks'[i][n].replied = tasks[i][n].replied
             /\ (/\ requests' # requests
                 /\ InSeq(processed_event_ids[i], EventKey(tasks[i][n].event)))
                => \A r \in AdmittedRequests :
                      (/\ EventKey(r.body) = EventKey(tasks[i][n].event)
                       /\ slack_events(i, r.body, r.retry_num, r.signature, r.skip_verify))
                      => /\ response' = Accepted
                         /\ Len(tasks'[i]) = Len(tasks[i])
                         /\ processed_event_ids' = processed_event_ids]_vars

\* A task has failed, and a later delivery of its event was turned away
\* by the cache that still held its key.
C22_Witness ==
    \E i \in Instances : \E n \in DOMAIN tasks[i] :
        /\ tasks[i][n].result = "error"
        /\ tasks[i][n].dups > 0
        /\ tasks[i][n].gen = inserted[i][EventKey(tasks[i][n].event)]
        /\ InSeq(processed_event_ids[i], EventKey(tasks[i][n].event))
        /\ \A m \in DOMAIN tasks[i] :
              EventKey(tasks[i][m].event) = EventKey(tasks[i][n].event) => m = n

(***************************************************************************)
(* RestartSpec: one instance that restarts                                 *)
(***************************************************************************)

MaxRestartRequests == 3
RestartBodies == {Report, Chat}

RestartNext ==
    \/ \E body \in RestartBodies :
            /\ requests < MaxRestartRequests
            /\ slack_events(GateInstance, body, NoRetry, "valid", FALSE)
    \/ \E n \in DOMAIN tasks[GateInstance] : ProcessAcquire(GateInstance, n)
    \/ \E n \in DOMAIN tasks[GateInstance] : RouteEvent(GateInstance, n)
    \/ \E n \in DOMAIN tasks[GateInstance] : HandleComplete(GateInstance, n)
    \/ \E n \in DOMAIN tasks[GateInstance], stored \in BOOLEAN :
            HandleFail(GateInstance, n, stored)
    \/ Restart(GateInstance)

RestartSpec == Init /\ [][RestartNext]_vars

\* The tasks of the restarting instance, the message each is about, and
\* whether its reactions_add call got success or the conflict error.
RTasks == DOMAIN tasks[GateInstance]
RItem(t) == ProcessedKey(t.event.channel, t.event.ts)
Answered(t) ==
    /\ t.mark # <<>>
    /\ (~t.mark[1].raised \/ t.mark[1].text = AlreadyReacted)

\* C23: a message that carries the mark keeps it; a _claim_message call
\* for a marked message that gets the platform's answer returns False and
\* the task ends without processing; so of the tasks for one message whose
\* call got the platform's answer, across restarts, at most one was
\* granted the claim.
C23_ClaimPermanent ==
    /\ [](\A n, m \in RTasks :
            (/\ n # m
             /\ RItem(tasks[GateInstance][n]) = RItem(tasks[GateInstance][m])
             /\ Answered(tasks[GateInstance][n])
             /\ Answered(tasks[GateInstance][m]))
            => ~(tasks[GateInstance][n].claimed /\ tasks[GateInstance][m].claimed))
    /\ [][/\ reactions \subseteq reactions'
          /\ \A n \in RTasks :
                (/\ tasks[GateInstance][n].pc = "routing"
                 /\ RItem(tasks[GateInstance][n]) \in reactions
                 /\ Answered(tasks'[GateInstance][n]))
                => /\ ~tasks'[GateInstance][n].claimed
                   /\ tasks'[GateInstance][n].pc = "done"
                   /\ tasks'[GateInstance][n].result = "already_claimed"
                   /\ tasks'[GateInstance][n].reported = 0
                   /\ tasks'[GateInstance][n].replied = 0]_vars

\* The report was claimed and processed, the instance restarted, the
\* report was delivered again, passed both empty caches, and its claim was
\* refused.
C23_Witness ==
    /\ restarts[GateInstance] = 1
    /\ \E n, m \in RTasks :
          /\ n < m
          /\ tasks[GateInstance][n].event = Report
          /\ tasks[GateInstance][n].mark = <<Returned>>
          /\ tasks[GateInstance][n].result = "intake"
          /\ tasks[GateInstance][m].event = Report
          /\ tasks[GateInstance][m].mark = <<Raised(AlreadyReacted)>>
          /\ tasks[GateInstance][m].result = "already_claimed"

(***************************************************************************)
(* The tasks alive in one instance, under GateSpec                         *)
(***************************************************************************)

\* The tasks that have been spawned and have not ended.
Alive(i) == Inside(i) \cup Waiting(i)

\* The instance has spawned one task per event, for distinct events.
DistinctArrivals(i) ==
    \A n, m \in DOMAIN tasks[i] :
        EventKey(tasks[i][n].event) = EventKey(tasks[i][m].event) => n = m

\* C24: for distinct admitted events, the tasks alive in an instance,
\* inside the gate or waiting for a slot, never exceed a fixed bound; the
\* fixed bound the dispatcher has is the number of slots of its gate.
C24_AliveBounded ==
    \A i \in Instances :
        DistinctArrivals(i) => Cardinality(Alive(i)) <= AgentSlots

(***************************************************************************)
(* The order of the stages, under Spec                                     *)
(***************************************************************************)

\* C25: a task for a thread-reply report exists, and has taken a slot of
\* the gate, only when _claim_message has returned True for its message.
C25_SpawnAfterClaim ==
    \A i \in Instances : \A n \in DOMAIN tasks[i] :
        (tasks[i][n].event = Report /\ tasks[i][n].pc # "waiting")
        => tasks[i][n].claimed

(***************************************************************************)
(* Collaborator calls and the gate, under GateSpec                         *)
(***************************************************************************)

\* What the collaborator calls of a task leave in its record: the
\* handler chosen after the patient and token lookups, the outcome of
\* reactions_add, and what was stored and posted.
CallsOf(t) ==
    <<t.handler, t.mark, t.claimed, t.result, t.reported, t.replied>>

NoCalls ==
    <<NoneVal, <<>>, FALSE, NoneVal, 0, 0>>

\* C26: a task that waits for a slot has made no collaborator call, and
\* every step in which a task makes one is taken by a task inside the
\* gated section, while the slots handed out cover the tasks inside.
C26_CallsInsideGate ==
    /\ [](\A n \in DOMAIN tasks[GateInstance] :
            tasks[GateInstance][n].pc = "waiting"
            => CallsOf(tasks[GateInstance][n]) = NoCalls)
    /\ [][\A n \in DOMAIN tasks[GateInstance] :
            (\/ CallsOf(tasks'[GateInstance][n]) # CallsOf(tasks[GateInstance][n])
             \/ (reactions' # reactions /\ tasks'[GateInstance][n] # tasks[GateInstance][n]))
            => /\ n \in Inside(GateInstance)
               /\ Cardinality(Inside(GateInstance))
                    <= AgentSlots - agent_semaphore[GateInstance]]_vars

\* A task inside the gate has claimed its report and is in the intake
\* while another task waits for a slot without having called anything.
C26_Witness ==
    /\ \E n \in Inside(GateInstance) :
          /\ tasks[GateInstance][n].handler = "intake"
          /\ tasks[GateInstance][n].claimed
    /\ Waiting(GateInstance) # {}
    /\ agent_semaphore[GateInstance] = 0

(***************************************************************************)
(* GateLiveSpec: GateSpec under fair scheduling                            *)
(***************************************************************************)

\* The arrivals of the fair runs: a report, a casual message and a message
\* of a channel without patient, more often than the gate has slots.
MaxLiveRequests == 4
LiveBodies == {Report, Chat, Stray}

\* The steps of the n-th task of the instance, if it has been spawned.
Spawned(n) == n \in DOMAIN tasks[GateInstance]
Acquires(n) == Spawned(n) /\ ProcessAcquire(GateInstance, n)
Routes(n) == Spawned(n) /\ RouteEvent(GateInstance, n)
Ends(n) ==
    /\ Spawned(n)
    /\ \/ HandleComplete(GateInstance, n)
       \/ \E stored \in BOOLEAN : HandleFail(GateInstance, n, stored)

\* The event loop runs every task that can run, every awaited collaborator
\* call returns or raises, and asyncio.Semaphore wakes its waiters in the
\* order of their arrival, so that no waiter is passed over forever.
GateFairness ==
    \A n \in 1..MaxLiveRequests :
        /\ SF_vars(Acquires(n))
        /\ WF_vars(Routes(n))
        /\ WF_vars(Ends(n))

GateLiveNext ==
    \/ \E body \in LiveBodies :
            /\ requests < MaxLiveRequests
            /\ slack_events(GateInstance, body, NoRetry, "valid", FALSE)
    \/ \E n \in DOMAIN tasks[GateInstance] : ProcessAcquire(GateInstance, n)
    \/ \E n \in DOMAIN tasks[GateInstance] : RouteEvent(GateInstance, n)
    \/ \E n \in DOMAIN tasks[GateInstance] : HandleComplete(GateInstance, n)
    \/ \E n \in DOMAIN tasks[GateInstance], stored \in BOOLEAN :
            HandleFail(GateInstance, n, stored)

GateLiveSpec == Init /\ [][GateLiveNext]_vars /\ GateFairness

\* C27: every spawned task leaves the wait for a slot and ends, and in the
\* end no task is alive and every slot is free.
C27_TasksEnd ==
    /\ \A n \in 1..MaxLiveRequests :
          /\ (Spawned(n) /\ tasks[GateInstance][n].pc = "waiting")
                ~> (Spawned(n) /\ tasks[GateInstance][n].pc # "waiting")
          /\ Spawned(n) ~> (Spawned(n) /\ tasks[GateInstance][n].pc = "done")
    /\ <>[](/\ Alive(GateInstance) = {}
            /\ agent_semaphore[GateInstance] = AgentSlots)

\* More tasks than the gate has slots were spawned and all of them have
\* ended, one in the routing and one by an exception.
C27_Witness ==
    /\ Len(tasks[GateInstance]) > AgentSlots
    /\ Alive(GateInstance) = {}
    /\ agent_semaphore[GateInstance] = AgentSlots
    /\ \E n \in DOMAIN tasks[GateInstance] :
          tasks[GateInstance][n].result = "no_patient"
    /\ \E n \in DOMAIN tasks[GateInstance] :
          tasks[GateInstance][n].result = "error"

(***************************************************************************)
(* The local cache when the claim cannot be made, under Spec               *)
(***************************************************************************)

\* The reactions_add call of the task failed with another error than the
\* conflict, so that _claim_message returned True.
FailedOpen(t) ==
    /\ t.mark # <<>>
    /\ t.mark[1].raised
    /\ t.mark[1].text \in OtherErrors

C29_ChangedStoresAuto ==
    /\ [](\A w \in RecalcIds :
            (rw[w].pc = "done" /\ rw[w].changed)
            => /\ rw[w].stored_after = rw[w].new_level
               /\ rw[w].new_level # rw[w].current_level)
    /\ [][\A w \in RecalcIds :
            (rw[w].pc = "update" /\ rw'[w].pc = "history")
            => /\ patient'.risk_level = rw[w].new_level
               /\ patient'.risk_level_source = "auto"
               /\ patient'.risk_level_reason = rw[w].reason]_vars

\* A call that read a manual source has reported changed = true, and the
\* document holds its new level with source auto.
C29_Witness ==
    \E w \in RecalcIds :
        /\ rw[w].pc = "done" /\ rw[w].changed
        /\ rw[w].current_source = "manual"
        /\ patient.risk_level = rw[w].new_level
        /\ patient.risk_level_source = "auto"

(***************************************************************************)
(* HealSpec: the calls of RiskSpec, one at a time                          *)
(***************************************************************************)

\* No recalculate and no update_patient call is under way.
Quiet ==
    /\ \A w \in RecalcIds : rw[w].pc \in {"idle", "done", "failed"}
    /\ \A m \in ManualIds : mw[m].pc \in {"idle", "done", "failed"}

\* A call starts only when no other call is under way; a call can still
\* fail at any of its store operations.
HealNext ==
    \/ AdvanceClock
    \/ Quiet /\ \E w \in RecalcIds, sev \in StoredSeverities : AlertCreated(w, sev)
    \/ Quiet /\ \E w \in RecalcIds, i \in RecalcIds : AlertAcknowledged(w, i)
    \/ Quiet /\ \E w \in RecalcIds, pid \in {ThePatient, MissingPatient} :
          AlertScan(w, pid)
    \/ \E w \in RecalcIds : RecalcGetPatient(w)
    \/ \E w \in RecalcIds : RecalcListAlerts(w)
    \/ \E w \in RecalcIds : RecalcCalculate(w)
    \/ \E w \in RecalcIds : RecalcUpdatePatient(w)
    \/ \E w \in RecalcIds : RecalcRecordHistory(w)
    \/ \E w \in RecalcIds : RecalcFail(w)
    \/ Quiet /\ \E m \in ManualIds, level \in ManualLevels : ManualStart(m, level)
    \/ \E m \in ManualIds : ManualGetPatient(m)
    \/ \E m \in ManualIds : ManualUpdatePatient(m)
    \/ \E m \in ManualIds : ManualListAlerts(m)
    \/ \E m \in ManualIds : ManualRecordHistory(m)
    \/ \E m \in ManualIds : ManualFail(m)

HealSpec == RiskSpecInit /\ [][HealNext]_vars

LastMarked(c) == lruMarks'[c][Len(lruMarks'[c])]

C32_AlertsMonotone ==
    [][/\ Len(alerts') >= Len(alerts)
       /\ \A i \in DOMAIN alerts :
             /\ alerts'[i].severity = alerts[i].severity
             /\ alerts'[i].created_at = alerts[i].created_at
             /\ alerts[i].acknowledged => alerts'[i].acknowledged
       /\ \A i \in DOMAIN alerts' :
             i > Len(alerts) => ~alerts'[i].acknowledged]_vars

\* An acknowledged alert was acknowledged again and is still acknowledged,
\* next to a new alert that has not been acknowledged.
C32_Witness ==
    /\ Len(alerts) = 2
    /\ alerts[1].acknowledged
    /\ ~alerts[2].acknowledged
    /\ \E w \in RecalcIds : rw[w].trigger = "alert_acknowledged"

(***************************************************************************)
(* KeySpec: the choice of the dedup key                                    *)
(***************************************************************************)

\* One instance receives verified first deliveries of the bodies of
\* KeyBodies, no more than its event-id cache holds plus one, so that no
\* key has been evicted when a request arrives.
KeyNext ==
    \E body \in KeyBodies :
        /\ requests < MAX_DEDUP_SIZE + 1
        /\ slack_events(GateInstance, body, NoRetry, "valid", FALSE)

KeySpec == Init /\ [][KeyNext]_vars

\* The key by the stated precedence.
ChosenKey(body) ==
    IF body.event_id \notin {NoneVal, ""} THEN body.event_id
    ELSE IF body.client_msg_id \notin {NoneVal, ""} THEN body.client_msg_id
    ELSE body.ts

\* An earlier delivery to the instance chose the key k.
DeliveredWith(k) ==
    \E n \in DOMAIN tasks[GateInstance] :
        ChosenKey(tasks[GateInstance][n].event) = k

\* The step is a delivery of body that the instance treats as a
\* duplicate: it answers ok and spawns nothing.
TreatedAsSame(body) ==
    /\ slack_events(GateInstance, body, NoRetry, "valid", FALSE)
    /\ Len(tasks'[GateInstance]) = Len(tasks[GateInstance])

\* The step is a delivery of body that the instance admits under the key
\* of the stated precedence.
TreatedAsNew(body) ==
    /\ slack_events(GateInstance, body, NoRetry, "valid", FALSE)
    /\ Len(tasks'[GateInstance]) = Len(tasks[GateInstance]) + 1
    /\ ChosenKey(body) # ""
       => InSeq(processed_event_ids'[GateInstance], ChosenKey(body))

\* C33 as stated: a delivery is treated as the same event as an earlier
\* one exactly when the keys chosen for the two are equal.
C33_SameIffKeysEqual ==
    [][\A body \in KeyBodies :
          slack_events(GateInstance, body, NoRetry, "valid", FALSE)
          => IF DeliveredWith(ChosenKey(body))
             THEN TreatedAsSame(body) ELSE TreatedAsNew(body)]_vars

\* C33 (amended): the key is the event_id when it is non-empty, otherwise
\* the client_msg_id when non-empty, otherwise the ts; a delivery is
\* treated as the same event as an earlier one exactly when the keys chosen
\* for the two are equal and not empty. A delivery whose three identifiers
\* are all absent is admitted every time.
C33_SameIffKeysEqualNonEmpty ==
    [][\A body \in KeyBodies :
          slack_events(GateInstance, body, NoRetry, "valid", FALSE)
          => IF ChosenKey(body) # "" /\ DeliveredWith(ChosenKey(body))
             THEN TreatedAsSame(body) ELSE TreatedAsNew(body)]_vars

\* Two deliveries were one event although one carried K1 as event_id and
\* the other as client_msg_id.
C33_Witness ==
    /\ requests = 2
    /\ Len(tasks[GateInstance]) = 1
    /\ tasks[GateInstance][1].dups = 1
    /\ tasks[GateInstance][1].event.event_id = "K1"
    /\ processed_event_ids[GateInstance] = <<"K1">>

\* Position of a level in level_order: 1 is high, 3 is low.
Rank(level) == IndexOf(level_order, OrLowLower(level))

\* C34 as stated: when a recalculate call, run without another call under
\* way, writes the document of a subject whose stored source is manual,
\* the level it stores is not lower than the level stored before.
C34_ManualNeverLowered ==
    [][\A w \in RecalcIds :
          (/\ rw[w].pc = "update" /\ rw'[w].pc = "history"
           /\ patient.risk_level_source = "manual")
          => Rank(patient'.risk_level) <= Rank(patient.risk_level)]_vars

\* Call w read the subject with source auto and the document now has the
\* source manual: an override was written after w's get_patient.
OverriddenSinceRead(w) ==
    /\ rw[w].pid = ThePatient
    /\ rw[w].pc = "update"
    /\ rw[w].current_source = "auto"
    /\ patient.risk_level_source = "manual"

\* C35 as stated: a recalculate call that read the subject before a manual
\* override was written does not, by its own update_patient after the
\* override, leave the document with its level and source auto.
C35_OverrideNotLost ==
    [][\A w \in RecalcIds :
          (OverriddenSinceRead(w) /\ rw'[w].pc = "history")
          => ~(/\ patient'.risk_level = rw[w].new_level
               /\ patient'.risk_level_source = "auto")]_vars

\* Every call has returned normally or has not started.
AllReturned ==
    /\ \A w \in RecalcIds : rw[w].pc \in {"idle", "done"}
    /\ \A m \in ManualIds : mw[m].pc \in {"idle", "done"}

\* C36 as stated: once the calls for the subject have returned (none
\* failed), the history entries form a chain in append order, each
\* previous_level being the new_level of the entry before, and the last
\* new_level is the stored level, also when the calls overlapped.
C36_HistoryChain ==
    (AllReturned /\ history # <<>>)
    => /\ \A i \in DOMAIN history :
             i > 1 => history[i].previous_level = history[i - 1].new_level
       /\ history[Len(history)].new_level = patient.risk_level

(***************************************************************************)
(* TwinSpec: one message delivered as a message event and as an            *)
(* app_mention                                                             *)
(***************************************************************************)

\* Requests to the instance in one behaviour.
MaxTwinRequests == 3

\* The report, the app_mention for the same message, and another mention.
TwinBodies == {Report, ReportMention, Mention}

TwinNext ==
    \/ \E body \in TwinBodies :
            /\ requests < MaxTwinRequests
            /\ slack_events(GateInstance, body, NoRetry, "valid", FALSE)
    \/ \E n \in DOMAIN tasks[GateInstance] : ProcessAcquire(GateInstance, n)
    \/ \E n \in DOMAIN tasks[GateInstance] : RouteEvent(GateInstance, n)
    \/ \E n \in DOMAIN tasks[GateInstance] : HandleComplete(GateInstance, n)
    \/ \E n \in DOMAIN tasks[GateInstance], stored \in BOOLEAN :
            HandleFail(GateInstance, n, stored)

TwinSpec == Init /\ [][TwinNext]_vars

TTasks == tasks[GateInstance]

\* The channel:ts key of task n's message.
MessageKey(t) == ProcessedKey(t.event.channel, t.event.ts)

\* Tasks n and m are for one message, one as message event and one as
\* app_mention.
Twins(n, m) ==
    /\ n \in DOMAIN TTasks /\ m \in DOMAIN TTasks
    /\ MessageKey(TTasks[n]) = MessageKey(TTasks[m])
    /\ TTasks[n].event.type # TTasks[m].event.type

\* The report handler or the mention handler has run for task n.
HandlerRan(t) == t.handler # NoneVal

MaxBotRequests == 3

\* A human's report, the bot's posts and a dummy report.
BotBodies == {Report, BotConfirmation, BotAlert, DummyReport}

BotNext ==
    \/ \E body \in BotBodies :
            /\ requests < MaxBotRequests
            /\ slack_events(GateInstance, body, NoRetry, "valid", FALSE)
    \/ \E n \in DOMAIN tasks[GateInstance] : ProcessAcquire(GateInstance, n)
    \/ \E n \in DOMAIN tasks[GateInstance] : RouteEvent(GateInstance, n)
    \/ \E n \in DOMAIN tasks[GateInstance] : HandleComplete(GateInstance, n)
    \/ \E n \in DOMAIN tasks[GateInstance], stored \in BOOLEAN :
            HandleFail(GateInstance, n, stored)

BotSpec == Init /\ [][BotNext]_vars

\* The event carries a bot_id or the subtype bot_message.
FromBot(event) ==
    event.bot_id \notin {NoneVal, ""} \/ event.subtype = "bot_message"

\* C38: no detached task of the instance is for an event that carries a
\* bot_id or the subtype bot_message, unless the event is a dummy_report;
\* a delivery of such an event is answered ok and leaves the tasks as they
\* are.
C38_BotEventsSpawnNothing ==
    [][\A body \in BotBodies :
          (/\ FromBot(body) /\ body.metadata_event_type # "dummy_report"
           /\ slack_events(GateInstance, body, NoRetry, "valid", FALSE))
          => /\ tasks' = tasks
             /\ response' = Accepted
             /\ \A n \in DOMAIN tasks[GateInstance] :
                   FromBot(tasks[GateInstance][n].event)
                   => tasks[GateInstance][n].event.metadata_event_type
                         = "dummy_report"]_vars

\* The bot's confirmation was delivered after a human's report was
\* handled: its key is cached and the report's task is the only task.
C38_Witness ==
    /\ requests = 2
    /\ InSeq(processed_event_ids[GateInstance], EventKey(BotConfirmation))
    /\ Len(tasks[GateInstance]) = 1
    /\ tasks[GateInstance][1].event = Report
    /\ tasks[GateInstance][1].result = "intake"

(***************************************************************************)
(* A subject stored without risk_level_source, under RiskSpec              *)
(***************************************************************************)

\* The subject's document has no risk_level_source.
NoSource == patient.risk_level_source = NoneVal

\* C39: while the subject's document has no risk_level_source, a
\* recalculate call reads the source as manual; a call that found no
\* unacknowledged alert ends unchanged and writes nothing, however old the
\* latest alert is; and the only write a recalculation makes to the
\* document is by a call that found unacknowledged alerts, changes the
\* level and sets the source to auto.
C39_NoSourcePinned ==
    [][NoSource =>
         \A w \in RecalcIds :
            /\ (rw[w].pc = "get_patient" /\ rw'[w].pc = "list_alerts")
               => rw'[w].current_source = "manual"
            /\ (/\ rw[w].pc = "latest" /\ rw'[w].pc \in {"update", "done"}
                /\ rw[w].unacked_alerts = <<>>)
               => /\ rw'[w].pc = "done"
                  /\ ~rw'[w].changed
                  /\ rw'[w].new_level = rw[w].current_level
                  /\ patient' = patient /\ history' = history
            /\ (rw[w].pc = "update" /\ rw'[w].pc = "history")
               => /\ rw[w].unacked_alerts # <<>>
                  /\ patient'.risk_level # OrLowLower(patient.risk_level)
                  /\ patient'.risk_level_source = "auto"]_vars

\* A subject stored as HIGH without source, whose only alert is
\* acknowledged and at least QuietDays old: a recalculation has returned
\* unchanged and the document is as it was.
C39_Witness ==
    \E w \in RecalcIds :
        /\ NoSource /\ patient.risk_level = "HIGH"
        /\ rw[w].pc = "done" /\ rw[w].pid = ThePatient /\ ~rw[w].changed
        /\ rw[w].unacked_alerts = <<>>
        /\ rw[w].latest_alert_at # NoTimestamp
        /\ DaysSince(clock, rw[w].latest_alert_at) >= QuietDays
        /\ history = <<>>

====
